---------------------------- MODULE Spec2Model ----------------------------
(***************************************************************************)
(* Model of the card-stack quiz application (src/src/components/QuizApp.tsx *)
(* and its collaborators).                                                  *)
(*                                                                          *)
(* Several state machines share this module:                                *)
(*   SpecShuffle  - smartShuffle executed statement by statement, its       *)
(*                  random comparators modelled as free choices;            *)
(*   Spec         - the QuizApp component: one action per DOM event or      *)
(*                  asynchronous completion, each action running the        *)
(*                  handler, the re-render and every effect whose           *)
(*                  dependencies changed, until the component is quiescent; *)
(*   SpecGesture  - the pointer handlers of the card components;            *)
(*   SpecParse    - parseCSV executed character by character;               *)
(*   SpecLoad     - fetchQuestions from the parsed rows on, row by row,     *)
(*                  followed by the filter controls;                        *)
(*   SpecFetch    - the requests of fetchQuestions and its fallback;        *)
(*   SpecSelector - the category dialog and the selection it applies;       *)
(*   SpecAnimated - the animated QuizApp (src/unnamed/part_002): pointer    *)
(*                  events, key presses, timeouts and filter changes;       *)
(*   SpecMode     - the content-type controls of the animated QuizApp.      *)
(***************************************************************************)
EXTENDS Integers, Sequences, FiniteSets, TLC

(***************************************************************************)
(* Bounds of the model.                                                     *)
(***************************************************************************)
\* longest input handed to smartShuffle in SpecShuffle
MaxLen == 4

(***************************************************************************)
(* Records.                                                                 *)
(***************************************************************************)
\* Property names every object literal inherits from Object.prototype; the
\* model keeps one representative.  `categorizedQuestions[name]` is truthy
\* for such a name although no group was ever stored under it.
ObjectPrototypeKeys == {"constructor"}

\* Category labels used as inputs.
Categories == {"A", "B", "C"} \cup ObjectPrototypeKeys

Min(a, b) == IF a < b THEN a ELSE b

Range(s) == {s[i] : i \in 1..Len(s)}

\* All orders in which a comparator returning arbitrary signs can leave the
\* elements of a set: every arrangement of them.
Orders(S) == {f \in [1..Cardinality(S) -> S] : \A i, j \in 1..Cardinality(S) : f[i] = f[j] => i = j}

\* All arrangements of a sequence (Array.prototype.sort with a random comparator).
SortRandom(s) == {[i \in 1..Len(s) |-> s[p[i]]] : p \in Orders(1..Len(s))}


(***************************************************************************)
(* State of the QuizApp component (QuizApp.tsx lines 65-81) and of its      *)
(* registered listeners.                                                    *)
(***************************************************************************)
VARIABLES
  currentIndex,
  allQuestions,
  slides,
  loading,
  selectedCategories,
  availableCategories,
  isMixedMode,
  hasToggleBeenChanged,
  isDragging,
  dragOffset,
  dragStart,
  keyHandler,     \* what the registered handleKeyPress closes over
  dragHandlers,   \* what the registered handleStart/handleMove/handleEnd close over
  selector,       \* categorySelectorOpen, and the CategorySelector's tempSelection;
                  \* own: tempSelection is an array made by a toggle, not the
                  \* selectedCategories array itself
  last            \* observation: whether the last event ran the filter effect, and
                  \* the currentIndex and slides.length it found

appVars == <<currentIndex, allQuestions, slides, loading, selectedCategories,
             availableCategories, isMixedMode, hasToggleBeenChanged, isDragging,
             dragOffset, dragStart, keyHandler, dragHandlers, selector, last>>

(***************************************************************************)
(* smartShuffle (QuizApp.tsx lines 20-62), statement by statement.          *)
(***************************************************************************)
VARIABLES
  pc,                   \* control point inside smartShuffle
  input,                \* the parameter `questions`
  categorizedQuestions, \* own properties of the grouping object
  categories,           \* Object.keys(categorizedQuestions), in insertion order
  sortIdx,              \* position of the forEach of lines 31-33
  result,
  categoryCounters,
  shuffledCategories,   \* order of the current round
  pos,                  \* position of the for-of loop in shuffledCategories
  roundEmitted,         \* observation: categories that emitted in the current round
  roundPending          \* observation: categories with unconsumed records at round start

shuffleVars == <<pc, input, categorizedQuestions, categories, sortIdx, result,
                 categoryCounters, shuffledCategories, pos, roundEmitted, roundPending>>

(***************************************************************************)
(* The gesture trackers of the card components: StackedCards, QuizCard,     *)
(* IntroSlide, and the animated variant of QuizApp (src/unnamed/part_002)   *)
(* with its document-level swipe listeners.                                 *)
(***************************************************************************)
VARIABLES
  mounted,     \* the component that receives the events, and the input adapter
               \* (mouse handlers, touch handlers, or both fed the same events)
  dragState,   \* StackedCards.tsx lines 22-34
  touchTwin,   \* a second StackedCards, fed by the touch handlers when both
               \* adapters are fed the same events
  quizCard,    \* QuizCard.tsx lines 37-41
  introSlide,  \* IntroSlide.tsx lines 26-34
  swipe,       \* part_002 lines 85-87: startX, startY, isDragging
  animated,    \* part_002: currentIndex, slides.length and the pending timeouts
  track,       \* observation: the pointer, as the events report it
  mouseCalls,  \* observation: callbacks the mouse handlers invoked on the last event
  touchCalls,  \* observation: callbacks the touch handlers invoked on the last event
  documentCalls \* observation: callbacks the document's listeners invoked on it

gestureVars == <<mounted, dragState, touchTwin, quizCard, introSlide, swipe, animated,
                 track, mouseCalls, touchCalls, documentCalls>>

(***************************************************************************)
(* fetchQuestions (QuizApp.tsx lines 164-329): the scan of parseCSV and     *)
(* what the row loop made of the parsed rows.                               *)
(***************************************************************************)
VARIABLES
  parse,          \* csvText, i, current, inQuotes, row and result of parseCSV
  fetched         \* rows, i, questions and introContent of the row loop; pc is the
                  \* await or statement fetchQuestions is at, requests the fetches
                  \* it has made and whether each one delivered a text

loadVars == <<parse, fetched>>

\* Lines 23-28: does the forEach reach a record whose category names an inherited
\* property?  Then `!categorizedQuestions[q.category]` is false, no array is
\* created and `.push` is called on the inherited value: a TypeError.
GroupingThrows(qs) == \E i \in 1..Len(qs) : qs[i].category \in ObjectPrototypeKeys

\* Lines 22-28: the groups, each in input order.
GroupByCategory(qs) ==
  [c \in {qs[i].category : i \in 1..Len(qs)} |->
     SelectSeq(qs, LAMBDA q : q.category = c)]

\* Object.keys order of the grouping object: categories by first appearance.
RECURSIVE KeysOf(_)
KeysOf(qs) ==
  IF qs = <<>> THEN <<>>
  ELSE LET front == KeysOf(SubSeq(qs, 1, Len(qs) - 1))
           c == qs[Len(qs)].category
       IN IF c \in Range(front) THEN front ELSE Append(front, c)

\* Line 45: [...categories].sort(() => Math.random() - 0.5)
RoundOrdersDup(cats) == [1..Len(cats) -> Range(cats)]
RoundOrders(cats) == SortRandom(cats)

\* Line 53: categoryCounters[category]++
BumpCounterNot(counters, c) == counters
BumpCounter(counters, c) == [counters EXCEPT ![c] = @ + 1]

\* Line 43 / line 56: the loop condition and the break test.
AllEmitted(res, qs) == Len(res) >= Len(qs)

\* All inputs of SpecShuffle: record i carries text i.
ShuffleInputs ==
  UNION {{[i \in 1..n |-> [category |-> cs[i], question |-> i, type |-> "Frage"]] :
            cs \in [1..n -> Categories]} : n \in 0..MaxLen}

ShuffleIdle ==
  /\ pc = "idle"
  /\ input = <<>>
  /\ categorizedQuestions = <<>>
  /\ categories = <<>>
  /\ sortIdx = 0
  /\ result = <<>>
  /\ categoryCounters = <<>>
  /\ shuffledCategories = <<>>
  /\ pos = 0
  /\ roundEmitted = <<>>
  /\ roundPending = {}

\* Call of smartShuffle(questions).
InitShuffleVars ==
  /\ pc = "group"
  /\ input \in ShuffleInputs
  /\ categorizedQuestions = <<>>
  /\ categories = <<>>
  /\ sortIdx = 0
  /\ result = <<>>
  /\ categoryCounters = <<>>
  /\ shuffledCategories = <<>>
  /\ pos = 0
  /\ roundEmitted = <<>>
  /\ roundPending = {}

\* Lines 22-28.
GroupStep ==
  /\ UNCHANGED <<appVars, gestureVars, loadVars>>
  /\ pc = "group"
  /\ IF GroupingThrows(input)
       THEN /\ pc' = "threw"
            /\ UNCHANGED <<categorizedQuestions, categories, sortIdx>>
       ELSE /\ pc' = "sort"
            /\ categorizedQuestions' = GroupByCategory(input)
            /\ categories' = KeysOf(input)
            /\ sortIdx' = 1
  /\ UNCHANGED <<input, result, categoryCounters, shuffledCategories, pos,
                 roundEmitted, roundPending>>

\* Lines 31-33, one iteration of the forEach; lines 35-40 when it is over.
SortStep ==
  /\ UNCHANGED <<appVars, gestureVars, loadVars>>
  /\ pc = "sort"
  /\ IF sortIdx <= Len(categories)
       THEN /\ \E sorted \in SortRandom(categorizedQuestions[categories[sortIdx]]) :
                 categorizedQuestions' =
                   [categorizedQuestions EXCEPT ![categories[sortIdx]] = sorted]
            /\ sortIdx' = sortIdx + 1
            /\ UNCHANGED <<pc, categoryCounters>>
       ELSE /\ pc' = "while"
            /\ categoryCounters' = [c \in Range(categories) |-> 0]
            /\ UNCHANGED <<categorizedQuestions, sortIdx>>
  /\ UNCHANGED <<input, categories, result, shuffledCategories, pos,
                 roundEmitted, roundPending>>

\* Lines 43-45: the loop test and the order of the next round; line 61.
WhileStep ==
  /\ UNCHANGED <<appVars, gestureVars, loadVars>>
  /\ pc = "while"
  /\ IF ~AllEmitted(result, input)
       THEN /\ shuffledCategories' \in RoundOrders(categories)
            /\ pos' = 1
            /\ pc' = "for"
            /\ roundEmitted' = <<>>
            /\ roundPending' = {c \in Range(categories) :
                                  categoryCounters[c] < Len(categorizedQuestions[c])}
       ELSE /\ pc' = "done"
            /\ UNCHANGED <<shuffledCategories, pos, roundEmitted, roundPending>>
  /\ UNCHANGED <<input, categorizedQuestions, categories, sortIdx, result,
                 categoryCounters>>

\* Lines 47-58: one iteration of the for-of loop.
ForStep ==
  /\ UNCHANGED <<appVars, gestureVars, loadVars>>
  /\ pc = "for"
  /\ IF pos > Len(shuffledCategories)
       THEN /\ pc' = "while"
            /\ UNCHANGED <<result, categoryCounters, pos, roundEmitted>>
       ELSE LET category == shuffledCategories[pos]
                categoryQuestions == categorizedQuestions[category]
                counter == categoryCounters[category]
            IN IF counter < Len(categoryQuestions)
                 THEN /\ result' = Append(result, categoryQuestions[counter + 1])
                      /\ categoryCounters' = BumpCounter(categoryCounters, category)
                      /\ roundEmitted' = Append(roundEmitted, category)
                      /\ IF AllEmitted(result', input)
                           THEN pc' = "while" /\ pos' = pos
                           ELSE pc' = "for" /\ pos' = pos + 1
                 ELSE /\ pos' = pos + 1
                      /\ UNCHANGED <<pc, result, categoryCounters, roundEmitted>>
  /\ UNCHANGED <<input, categorizedQuestions, categories, sortIdx,
                 shuffledCategories, roundPending>>

NextShuffle == GroupStep \/ SortStep \/ WhileStep \/ ForStep

ShuffleReturned == pc \in {"done", "threw"}


(***************************************************************************)
(* smartShuffle as a function: the set of values a call can return.         *)
(* Empty when the call throws.                                              *)
(***************************************************************************)
\* Lines 47-58: one round over `order`, from position k on.
RECURSIVE RoundPass(_, _, _, _, _)
RoundPass(cq, st, order, k, qs) ==
  IF k > Len(order) THEN st
  ELSE LET category == order[k]
       IN IF st.counters[category] < Len(cq[category])
            THEN LET st2 == [result |-> Append(st.result, cq[category][st.counters[category] + 1]),
                             counters |-> BumpCounter(st.counters, category)]
                 IN IF AllEmitted(st2.result, qs) THEN st2
                    ELSE RoundPass(cq, st2, order, k + 1, qs)
            ELSE RoundPass(cq, st, order, k + 1, qs)

\* Lines 43-59: the rounds, each under every order of the categories.
RECURSIVE Rounds(_, _, _, _)
Rounds(cq, cats, st, qs) ==
  IF AllEmitted(st.result, qs) THEN {st.result}
  ELSE UNION {Rounds(cq, cats, RoundPass(cq, st, order, 1, qs), qs) :
                order \in RoundOrders(cats)}

\* Lines 20-62.
SmartShuffle(qs) ==
  IF GroupingThrows(qs) THEN {}
  ELSE LET groups == GroupByCategory(qs)
           cats == KeysOf(qs)
           sortedGroups == {cq \in [DOMAIN groups -> UNION {SortRandom(groups[c]) : c \in DOMAIN groups}] :
                              \A c \in DOMAIN groups : cq[c] \in SortRandom(groups[c])}
       IN UNION {Rounds(cq, cats, [result |-> <<>>, counters |-> [c \in DOMAIN groups |-> 0]], qs) :
                   cq \in sortedGroups}


(***************************************************************************)
(* QuizApp (QuizApp.tsx lines 64-487).                                      *)
(*                                                                          *)
(* Every handler is a closure of the render that registered it.  The        *)
(* keydown listener is re-registered only when currentIndex changes (line   *)
(* 354), the document-level drag listeners only when isDragging or          *)
(* dragStart change (line 162); between two registrations a listener keeps  *)
(* reading the currentIndex and slides of the render it was created in.     *)
(***************************************************************************)
vars == <<appVars, shuffleVars, gestureVars, loadVars>>

\* Line 109.
DragThreshold == 200

\* Pointer positions used as event coordinates.
Points == {[x |-> 0, y |-> 0], [x |-> 250, y |-> 0]}

Origin == [x |-> 0, y |-> 0]

Abs(n) == IF n < 0 THEN -n ELSE n

\* The rows of the loaded sheet that become records (line 272): two categories of
\* unequal size, both content types; `question` is the row's text.
Sheet ==
  << [category |-> "A", question |-> "q1", depth |-> "light", type |-> "Frage"],
     [category |-> "A", question |-> "q2", depth |-> "light", type |-> "Aktion"],
     [category |-> "B", question |-> "q3", depth |-> "light", type |-> "Frage"] >>

\* A row whose category names an inherited property of the grouping object.
InheritedRow ==
  [category |-> "constructor", question |-> "q1", depth |-> "light", type |-> "Frage"]

RECURSIVE SubSequences(_)
SubSequences(s) ==
  IF s = <<>> THEN {<<>>}
  ELSE LET rest == SubSequences(SubSeq(s, 1, Len(s) - 1))
       IN rest \cup {Append(r, s[Len(s)]) : r \in rest}

\* The non-intro records parsed from the loaded text, in row order: any selection
\* of the rows of the sheet, or the inherited row alone.
LoadInputs == SubSequences(Sheet) \cup {<<InheritedRow>>}

\* The component's state and registered closures as one value.
Hooks ==
  [currentIndex |-> currentIndex, allQuestions |-> allQuestions, slides |-> slides,
   loading |-> loading, selectedCategories |-> selectedCategories,
   availableCategories |-> availableCategories, isMixedMode |-> isMixedMode,
   hasToggleBeenChanged |-> hasToggleBeenChanged, isDragging |-> isDragging,
   dragOffset |-> dragOffset, dragStart |-> dragStart,
   keyHandler |-> keyHandler, dragHandlers |-> dragHandlers, selector |-> selector,
   filterRan |-> FALSE]

\* Which state setters of the event received a new array or object.
NoRefs == [selectedCategories |-> FALSE, allQuestions |-> FALSE, dragStart |-> FALSE]

\* Lines 351-354: the values the keydown listener registered in render h reads.
CaptureKey(h) == [currentIndex |-> h.currentIndex, slidesLength |-> Len(h.slides)]

\* Lines 88-162: the values the drag listeners registered in render h read.
CaptureDrag(h) ==
  [currentIndex |-> h.currentIndex, slidesLength |-> Len(h.slides),
   isDragging |-> h.isDragging, dragStart |-> h.dragStart]

\* Lines 331-335, called through closure c.
NextQuestion(c, h) ==
  IF c.currentIndex < c.slidesLength - 1
    THEN [h EXCEPT !.currentIndex = @ + 1]
    ELSE h

\* Lines 337-341, called through closure c.
PrevQuestion(c, h) ==
  IF c.currentIndex > 0
    THEN [h EXCEPT !.currentIndex = @ - 1]
    ELSE h

\* Lines 359-366.
FilterQuestionsAnyType(h) ==
  SelectSeq(h.allQuestions, LAMBDA q : q.category \in h.selectedCategories)

FilterQuestions(h) ==
  SelectSeq(h.allQuestions,
            LAMBDA q : /\ q.category \in h.selectedCategories
                       /\ (h.isMixedMode \/ q.type = "Frage"))

\* Lines 370-378: the slide sequences the effect can build.
BuildSlides(h) ==
  {[i \in 1..Len(sq) |-> [type |-> "question", question |-> sq[i]]] :
     sq \in SmartShuffle(FilterQuestions(h))}

\* Line 381: setCurrentIndex(0).
ResetIndexKeep(i) == i
ResetIndex(i) == 0

\* Line 386: (i) => (slides.length ? Math.min(i, slides.length - 1) : 0)
ClampIndex(i, length) == IF length # 0 THEN Min(i, length - 1) ELSE 0

\* CategorySelector (part_000) lines 24-27: the effect that copies the
\* selectedCategories prop into tempSelection.
SyncTempSelection(sel, selected) ==
  [sel EXCEPT !.tempSelection = selected, !.own = FALSE]

\* Lines 88-162, 351-354, 357-382, 385-387: the effects of the render `cur`, whose
\* dependencies are compared with those of the previous render `prev`; state set
\* by an effect causes a further render, whose effects run in turn.
RECURSIVE RunEffects(_, _, _)
RunEffects(prev, cur, refs) ==
  LET dragDep == cur.isDragging # prev.isDragging \/ refs.dragStart
      keyDep == cur.currentIndex # prev.currentIndex
      filterDep == \/ refs.selectedCategories
                   \/ refs.allQuestions
                   \/ Cardinality(cur.availableCategories) # Cardinality(prev.availableCategories)
                   \/ cur.isMixedMode # prev.isMixedMode
                   \/ cur.hasToggleBeenChanged # prev.hasToggleBeenChanged
      clampDep == Len(cur.slides) # Len(prev.slides)
      rendered == [cur EXCEPT !.dragHandlers = IF dragDep THEN CaptureDrag(cur) ELSE @,
                              !.keyHandler = IF keyDep THEN CaptureKey(cur) ELSE @,
                              !.selector = IF refs.selectedCategories
                                             THEN SyncTempSelection(@, cur.selectedCategories)
                                             ELSE @,
                              !.filterRan = @ \/ filterDep]
      filtered == IF filterDep
                    THEN {[rendered EXCEPT !.slides = sl, !.currentIndex = ResetIndex(@)] :
                            sl \in BuildSlides(cur)}
                    ELSE {rendered}
      Clamped(h) == IF clampDep
                      THEN [h EXCEPT !.currentIndex = ClampIndex(@, Len(cur.slides))]
                      ELSE h
  IN IF ~filterDep /\ ~clampDep
       THEN {rendered}
       ELSE UNION {RunEffects(rendered, Clamped(h), NoRefs) : h \in filtered}

\* The new values of the variables after an event.
Commit(h) ==
  /\ currentIndex' = h.currentIndex
  /\ allQuestions' = h.allQuestions
  /\ slides' = h.slides
  /\ loading' = h.loading
  /\ selectedCategories' = h.selectedCategories
  /\ availableCategories' = h.availableCategories
  /\ isMixedMode' = h.isMixedMode
  /\ hasToggleBeenChanged' = h.hasToggleBeenChanged
  /\ isDragging' = h.isDragging
  /\ dragOffset' = h.dragOffset
  /\ dragStart' = h.dragStart
  /\ keyHandler' = h.keyHandler
  /\ dragHandlers' = h.dragHandlers
  /\ selector' = h.selector
  /\ last' = IF h.filterRan
               THEN [filterRan |-> TRUE, index |-> currentIndex, length |-> Len(slides)]
               ELSE [filterRan |-> FALSE, index |-> 0, length |-> 0]
  /\ UNCHANGED <<shuffleVars, gestureVars, loadVars>>

\* The component after mount: the first render and its effects (the filter effect
\* builds an empty slide sequence from the empty record set).
InitApp ==
  /\ currentIndex = 0
  /\ allQuestions = <<>>
  /\ slides = <<>>
  /\ loading = TRUE
  /\ selectedCategories = {}
  /\ availableCategories = {}
  /\ isMixedMode = TRUE
  /\ hasToggleBeenChanged = FALSE
  /\ isDragging = FALSE
  /\ dragOffset = Origin
  /\ dragStart = Origin
  /\ keyHandler = [currentIndex |-> 0, slidesLength |-> 0]
  /\ dragHandlers = [currentIndex |-> 0, slidesLength |-> 0,
                     isDragging |-> FALSE, dragStart |-> Origin]
  /\ selector = [open |-> FALSE, tempSelection |-> {}, own |-> FALSE]
  /\ last = [filterRan |-> TRUE, index |-> 0, length |-> 0]


\* Line 285-286: the unique categories of the records, the intro label excluded.
IntroSpellings == {"intro", "Intro", "INTRO"}
CategoriesOf(qs) == {qs[i].category : i \in 1..Len(qs)} \ IntroSpellings

\* Line 322: setSelectedCategories(categories).
InitialSelectionNone(qs) == {}

InitialSelection(qs) == CategoriesOf(qs)

\* Lines 164-329: fetchQuestions resumes with the parsed non-intro records qs.
FetchQuestionsDone(qs) ==
  /\ loading
  /\ IF Len(qs) > 0 /\ ~GroupingThrows(qs)
       THEN \E shuffledQuestions \in SmartShuffle(qs) :
              LET h == [Hooks EXCEPT !.allQuestions = shuffledQuestions,
                                     !.availableCategories = CategoriesOf(qs),
                                     !.selectedCategories = InitialSelection(qs),
                                     !.loading = FALSE]
                  refs == [NoRefs EXCEPT !.allQuestions = TRUE, !.selectedCategories = TRUE]
              IN \E done \in RunEffects(Hooks, h, refs) : Commit(done)
       ELSE \* no record (line 277), or smartShuffle threw (line 279, caught at line 324)
            \E done \in RunEffects(Hooks, [Hooks EXCEPT !.loading = FALSE], NoRefs) :
              Commit(done)

\* Lines 186-194, 324-328: the network fetch and the local fallback both fail.
FetchQuestionsFailsKeepsLoading ==
  /\ loading
  /\ Commit(Hooks)

FetchQuestionsFails ==
  /\ loading
  /\ \E done \in RunEffects(Hooks, [Hooks EXCEPT !.loading = FALSE], NoRefs) :
       Commit(done)

Keys == {"ArrowLeft", "ArrowRight", "Enter"}

\* Lines 343-349: the state handleKeyPress of closure c leaves, before the render.
KeyPressResult(key, c, h) ==
  IF key = "ArrowLeft" THEN PrevQuestion(c, h)
  ELSE IF key = "ArrowRight" THEN NextQuestion(c, h)
  ELSE h

\* A keydown event, through the listener registered at line 352.
HandleKeyPress(key) ==
  \E done \in RunEffects(Hooks, KeyPressResult(key, keyHandler, Hooks), NoRefs) :
    Commit(done)

\* Lines 89-93, called by the mousedown and touchstart listeners.
HandleStartResult(p, h) ==
  [h EXCEPT !.isDragging = TRUE, !.dragStart = p, !.dragOffset = Origin]

HandleStart(p) ==
  LET refs == [NoRefs EXCEPT !.dragStart = TRUE]
  IN \E done \in RunEffects(Hooks, HandleStartResult(p, Hooks), refs) : Commit(done)

\* Lines 95-102, called by the mousemove and touchmove listeners.
HandleMoveResultCommits(p, c, h) ==
  IF ~c.isDragging THEN h
  ELSE LET deltaX == p.x - c.dragStart.x
           deltaY == p.y - c.dragStart.y
           moved == IF Abs(deltaX) > DragThreshold \/ Abs(deltaY) > DragThreshold
                      THEN NextQuestion(c, h) ELSE h
       IN [moved EXCEPT !.dragOffset = [x |-> deltaX, y |-> deltaY]]

HandleMoveResult(p, c, h) ==
  IF ~c.isDragging THEN h
  ELSE [h EXCEPT !.dragOffset = [x |-> p.x - c.dragStart.x, y |-> p.y - c.dragStart.y]]

HandleMove(p) ==
  \E done \in RunEffects(Hooks, HandleMoveResult(p, dragHandlers, Hooks), NoRefs) :
    Commit(done)

\* Line 112.
DragCommits(deltaX, deltaY) == Abs(deltaX) > DragThreshold \/ Abs(deltaY) > DragThreshold

HandleEndResultByDirection(p, c, h) ==
  LET deltaX == p.x - c.dragStart.x
      deltaY == p.y - c.dragStart.y
      moved == IF ~DragCommits(deltaX, deltaY) THEN h
               ELSE IF deltaX < 0 THEN PrevQuestion(c, h)
               ELSE NextQuestion(c, h)
  IN IF ~c.isDragging THEN h
     ELSE [moved EXCEPT !.isDragging = FALSE, !.dragOffset = Origin]

\* Lines 104-118, called by the mouseup and touchend listeners.
HandleEndResult(p, c, h) ==
  LET deltaX == p.x - c.dragStart.x
      deltaY == p.y - c.dragStart.y
      moved == IF DragCommits(deltaX, deltaY) THEN NextQuestion(c, h) ELSE h
  IN IF ~c.isDragging THEN h
     ELSE [moved EXCEPT !.isDragging = FALSE, !.dragOffset = Origin]

HandleEnd(p) ==
  \E done \in RunEffects(Hooks, HandleEndResult(p, dragHandlers, Hooks), NoRefs) :
    Commit(done)

\* Lines 389-391, called by the category dialog with its temporary selection after
\* at least one toggle (a new array; the unchanged array is no state change).
HandleCategoriesChange(cats) ==
  /\ availableCategories # {}
  /\ LET h == [Hooks EXCEPT !.selectedCategories = cats]
         refs == [NoRefs EXCEPT !.selectedCategories = TRUE]
     IN \E done \in RunEffects(Hooks, h, refs) : Commit(done)

\* ---- the render of QuizApp (lines 393-456) ----
Max(a, b) == IF a > b THEN a ELSE b

\* Array.prototype.slice(start, end): a negative position counts from the end,
\* positions are clipped to the array.
Slice(s, start, end) ==
  LET from == IF start < 0 THEN Max(Len(s) + start, 0) ELSE Min(start, Len(s))
      to == IF end < 0 THEN Max(Len(s) + end, 0) ELSE Min(end, Len(s))
  IN SubSeq(s, from + 1, to)

\* Line 393.
HasSlides(h) == Len(h.slides) > 0

\* Line 394.
SafeIndexUnclamped(h) == h.currentIndex

SafeIndex(h) == IF HasSlides(h) THEN Min(h.currentIndex, Len(h.slides) - 1) ELSE 0

\* Line 420: slides.slice(safeIndex, safeIndex + 4).
StackSize == 4

\* Lines 420-428 and 445-453: the cards of the stack; dragTransform tells whether
\* the card is given the translation and rotation of the drag.
CardStack(h) ==
  LET window == Slice(h.slides, SafeIndex(h), SafeIndex(h) + StackSize)
  IN [stackIndex \in 1..Len(window) |->
        [slide |-> window[stackIndex],
         actualIndex |-> SafeIndex(h) + stackIndex - 1,
         isTopCard |-> stackIndex = 1,
         dragTransform |-> stackIndex = 1 /\ h.isDragging]]

\* Lines 415-459: what the render shows in the card area.
Render(h) ==
  IF h.loading THEN [shows |-> "loading", cards |-> <<>>]
  ELSE IF HasSlides(h) THEN [shows |-> "cards", cards |-> CardStack(h)]
  ELSE [shows |-> "empty", cards |-> <<>>]

\* QuizApp.tsx line 405: the button that opens the category dialog.
OpenSelector ==
  /\ ~selector.open
  /\ \E done \in RunEffects(Hooks, [Hooks EXCEPT !.selector.open = TRUE], NoRefs) :
       Commit(done)

\* CategorySelector lines 64-68: prev.includes(category) ? prev.filter(...) :
\* [...prev, category].
Toggled(selection, category) ==
  IF category \in selection THEN selection \ {category} ELSE selection \cup {category}

\* CategorySelector lines 63-69 and 122 (lines 130-135 do the same): a click on
\* the row of a listed category.
HandleCategoryToggle(category) ==
  /\ selector.open
  /\ category \in availableCategories
  /\ LET h == [Hooks EXCEPT !.selector.tempSelection = Toggled(@, category),
                            !.selector.own = TRUE]
     IN \E done \in RunEffects(Hooks, h, NoRefs) : Commit(done)

\* CategorySelector lines 76-79 (handleApply, lines 71-74, does the same and is
\* wired to no control): onCategoriesChange(tempSelection), onOpenChange(false).
\* setSelectedCategories receives a new array only after a toggle.
HandleClose ==
  /\ selector.open
  /\ LET h == [Hooks EXCEPT !.selectedCategories = selector.tempSelection,
                            !.selector.open = FALSE]
         refs == [NoRefs EXCEPT !.selectedCategories = selector.own]
     IN \E done \in RunEffects(Hooks, h, refs) : Commit(done)

\* CategorySelector line 82 and QuizApp.tsx line 480: the Dialog reports its own
\* dismissal (Escape, a click outside) through onOpenChange(false), which is
\* setCategorySelectorOpen.
DismissSelector ==
  /\ selector.open
  /\ \E done \in RunEffects(Hooks, [Hooks EXCEPT !.selector.open = FALSE], NoRefs) :
       Commit(done)

\* Lines 466-471: the switch reports the negated value.
OnCheckedChange ==
  LET h == [Hooks EXCEPT !.isMixedMode = ~isMixedMode, !.hasToggleBeenChanged = TRUE]
  IN \E done \in RunEffects(Hooks, h, NoRefs) : Commit(done)

\* part_002 lines 484-492 and 500-508: the click handlers of the labels
\* "question mode" (mixed = FALSE) and "action mode" (mixed = TRUE).
ModeLabelResult(mixed, h) ==
  [h EXCEPT !.isMixedMode = mixed, !.hasToggleBeenChanged = TRUE]

\* A click on a mode label of the animated QuizApp, whose filter effect
\* (part_002 lines 346-372) and clamp effect (lines 375-377) are those of QuizApp.
OnModeLabelClick(mixed) ==
  \E done \in RunEffects(Hooks, ModeLabelResult(mixed, Hooks), NoRefs) : Commit(done)

\* part_002 lines 311-339: a key press of the animated QuizApp followed, with no
\* event in between, by the timeout its nextQuestion or prevQuestion scheduled.
KeyPressAndTimeout(key) ==
  \E done \in RunEffects(Hooks, KeyPressResult(key, keyHandler, Hooks), NoRefs) :
    Commit(done)

(***************************************************************************)
(* The card components.  A handler is given as the state it leaves and the  *)
(* callbacks it invokes.  The handlers of a component are created anew by   *)
(* every render, so they read the component's current state.  None of the   *)
(* places that mount QuizCard or IntroSlide passes onDragStart, onDragMove   *)
(* or onDragEnd, so the handlers take their local branches.                 *)
(***************************************************************************)
\* useState<number | null>(null): the value of a coordinate not yet recorded.
\* Event coordinates are never negative.
Null == -1

\* The JavaScript test `!v` on a number or null.
Falsy(v) == v = Null \/ v = 0

\* StackedCards.tsx line 39.
minDragDistance == 100

\* QuizCard.tsx line 47, IntroSlide.tsx line 36.
minSwipeDistance == 50

\* part_002 line 102.
SwipeDistance == 50

\* Pointer positions of the events sent to StackedCards.
Points2D == [x : {0, 80, 250}, y : {0, 80, 150}]

\* Pointer positions of the events sent to the horizontal swipe surfaces.
CardPoints == [x : {0, 10, 70, 110}, y : {0, 100}]

\* An event no handler is bound to, or a handler that returns at once.
Unhandled(st) == [st |-> st, calls |-> <<>>]

\* ---- StackedCards ----
\* Lines 28-34, 80-86.
DragStateIdle ==
  [isDragging |-> FALSE, startX |-> 0, startY |-> 0, currentX |-> 0, currentY |-> 0]

\* Lines 42-50.
HandlePointerStart(d, p) ==
  [st |-> [isDragging |-> TRUE, startX |-> p.x, startY |-> p.y,
           currentX |-> 0, currentY |-> 0],
   calls |-> <<>>]

\* Lines 53-64.
HandlePointerMoveAbsolute(d, p) ==
  IF ~d.isDragging THEN Unhandled(d)
  ELSE [st |-> [d EXCEPT !.currentX = p.x, !.currentY = p.y], calls |-> <<>>]

HandlePointerMove(d, p) ==
  IF ~d.isDragging THEN Unhandled(d)
  ELSE [st |-> [d EXCEPT !.currentX = p.x - d.startX, !.currentY = p.y - d.startY],
        calls |-> <<>>]

\* Lines 70-74: Math.sqrt(currentX ** 2 + currentY ** 2) > minDragDistance.  The
\* square root of the sum exceeds the distance exactly when the sum exceeds the
\* square of the distance.
ExceedsDistance(x, y, distance) == x * x + y * y > distance * distance

\* Lines 67-87.
HandlePointerEnd(d) ==
  IF ~d.isDragging THEN Unhandled(d)
  ELSE [st |-> DragStateIdle,
        calls |-> IF ExceedsDistance(d.currentX, d.currentY, minDragDistance)
                    THEN <<"onCardRemoved">> ELSE <<>>]

\* Lines 89-116 and the bindings of lines 141-143 and 182-185: the container binds
\* onMouseMove, onMouseUp and onMouseLeave only while isDragging; the top card
\* binds onMouseDown and the three touch handlers.
StackedCardsHandle(d, adapter, kind, p) ==
  CASE kind = "start" -> HandlePointerStart(d, p)
    [] kind = "move" -> IF adapter = "mouse" /\ ~d.isDragging THEN Unhandled(d)
                        ELSE HandlePointerMove(d, p)
    [] kind = "end" -> IF adapter = "mouse" /\ ~d.isDragging THEN Unhandled(d)
                       ELSE HandlePointerEnd(d)
    [] kind = "leave" -> IF adapter = "mouse" /\ d.isDragging THEN HandlePointerEnd(d)
                         ELSE Unhandled(d)

\* ---- QuizCard ----
\* Lines 37-41.
QuizCardIdle ==
  [touchStart |-> Null, touchEnd |-> Null, mouseStart |-> Null, mouseEnd |-> Null,
   isLocalDragging |-> FALSE]

\* Lines 219-227 and 260-268.
QuizCardSwipe(distance) ==
  IF distance > minSwipeDistance THEN <<"onSwipeLeft">>
  ELSE IF distance < -minSwipeDistance THEN <<"onSwipeRight">>
  ELSE <<>>

\* Lines 196-203.
QuizCardOnTouchStart(c, p) ==
  [st |-> [c EXCEPT !.touchEnd = Null, !.touchStart = p.x], calls |-> <<>>]

\* Lines 205-211.
QuizCardOnTouchMove(c, p) == [st |-> [c EXCEPT !.touchEnd = p.x], calls |-> <<>>]

\* Lines 213-229.
QuizCardOnTouchEnd(c) ==
  IF Falsy(c.touchStart) \/ Falsy(c.touchEnd) THEN Unhandled(c)
  ELSE [st |-> c, calls |-> QuizCardSwipe(c.touchStart - c.touchEnd)]

\* Lines 232-240.
QuizCardOnMouseDown(c, p) ==
  [st |-> [c EXCEPT !.mouseEnd = Null, !.mouseStart = p.x, !.isLocalDragging = TRUE],
   calls |-> <<>>]

\* Lines 242-249.
QuizCardOnMouseMove(c, p) ==
  IF ~c.isLocalDragging THEN Unhandled(c)
  ELSE [st |-> [c EXCEPT !.mouseEnd = p.x], calls |-> <<>>]

\* Lines 251-272.
QuizCardOnMouseUp(c) ==
  IF ~c.isLocalDragging \/ Falsy(c.mouseStart) \/ Falsy(c.mouseEnd)
    THEN [st |-> [c EXCEPT !.isLocalDragging = FALSE], calls |-> <<>>]
    ELSE [st |-> [c EXCEPT !.isLocalDragging = FALSE],
          calls |-> QuizCardSwipe(c.mouseStart - c.mouseEnd)]

\* Lines 274-280.
QuizCardOnMouseLeave(c) == [st |-> [c EXCEPT !.isLocalDragging = FALSE], calls |-> <<>>]

\* Lines 291-297.
QuizCardHandle(c, adapter, kind, p) ==
  CASE adapter = "touch" /\ kind = "start" -> QuizCardOnTouchStart(c, p)
    [] adapter = "touch" /\ kind = "move" -> QuizCardOnTouchMove(c, p)
    [] adapter = "touch" /\ kind = "end" -> QuizCardOnTouchEnd(c)
    [] adapter = "mouse" /\ kind = "start" -> QuizCardOnMouseDown(c, p)
    [] adapter = "mouse" /\ kind = "move" -> QuizCardOnMouseMove(c, p)
    [] adapter = "mouse" /\ kind = "end" -> QuizCardOnMouseUp(c)
    [] adapter = "mouse" /\ kind = "leave" -> QuizCardOnMouseLeave(c)
    [] OTHER -> Unhandled(c)

\* ---- IntroSlide ----
\* Lines 26-34.
IntroSlideIdle ==
  [touchStartX |-> Null, touchStartY |-> Null, touchEndX |-> Null, touchEndY |-> Null,
   mouseStartX |-> Null, mouseStartY |-> Null, mouseEndX |-> Null, mouseEndY |-> Null,
   isMousePressed |-> FALSE]

\* Lines 67-73 and 113-119.
IntroSlideSwipe(deltaX, deltaY) ==
  IF Abs(deltaX) > Abs(deltaY) /\ Abs(deltaX) > minSwipeDistance
    THEN IF deltaX > 0 THEN <<"onSwipeRight">> ELSE <<"onSwipeLeft">>
    ELSE <<>>

\* Lines 38-45.
IntroSlideOnTouchStart(s, p) ==
  [st |-> [s EXCEPT !.touchStartX = p.x, !.touchStartY = p.y], calls |-> <<>>]

\* Lines 47-55.
IntroSlideOnTouchMove(s, p) ==
  IF s.touchStartX = Null \/ s.touchStartY = Null THEN Unhandled(s)
  ELSE [st |-> [s EXCEPT !.touchEndX = p.x, !.touchEndY = p.y], calls |-> <<>>]

\* Lines 57-81.
IntroSlideOnTouchEnd(s) ==
  IF Falsy(s.touchStartX) \/ Falsy(s.touchStartY) \/ Falsy(s.touchEndX) \/ Falsy(s.touchEndY)
    THEN Unhandled(s)
    ELSE [st |-> [s EXCEPT !.touchStartX = Null, !.touchStartY = Null,
                           !.touchEndX = Null, !.touchEndY = Null],
          calls |-> IntroSlideSwipe(s.touchEndX - s.touchStartX,
                                    s.touchEndY - s.touchStartY)]

\* Lines 83-91.
IntroSlideOnMouseDown(s, p) ==
  [st |-> [s EXCEPT !.mouseStartX = p.x, !.mouseStartY = p.y, !.isMousePressed = TRUE],
   calls |-> <<>>]

\* Lines 93-101.
IntroSlideOnMouseMove(s, p) ==
  IF ~s.isMousePressed \/ s.mouseStartX = Null \/ s.mouseStartY = Null THEN Unhandled(s)
  ELSE [st |-> [s EXCEPT !.mouseEndX = p.x, !.mouseEndY = p.y], calls |-> <<>>]

\* Lines 122-126 and 135-139.
IntroSlideMouseReset(s) ==
  [s EXCEPT !.mouseStartX = Null, !.mouseStartY = Null,
            !.mouseEndX = Null, !.mouseEndY = Null, !.isMousePressed = FALSE]

\* Lines 103-128.
IntroSlideOnMouseUp(s) ==
  IF \/ ~s.isMousePressed
     \/ Falsy(s.mouseStartX) \/ Falsy(s.mouseStartY)
     \/ Falsy(s.mouseEndX) \/ Falsy(s.mouseEndY)
    THEN Unhandled(s)
    ELSE [st |-> IntroSlideMouseReset(s),
          calls |-> IntroSlideSwipe(s.mouseEndX - s.mouseStartX,
                                    s.mouseEndY - s.mouseStartY)]

\* Lines 130-141.
IntroSlideOnMouseLeave(s) == [st |-> IntroSlideMouseReset(s), calls |-> <<>>]

\* Lines 150-156.
IntroSlideHandle(s, adapter, kind, p) ==
  CASE adapter = "touch" /\ kind = "start" -> IntroSlideOnTouchStart(s, p)
    [] adapter = "touch" /\ kind = "move" -> IntroSlideOnTouchMove(s, p)
    [] adapter = "touch" /\ kind = "end" -> IntroSlideOnTouchEnd(s)
    [] adapter = "mouse" /\ kind = "start" -> IntroSlideOnMouseDown(s, p)
    [] adapter = "mouse" /\ kind = "move" -> IntroSlideOnMouseMove(s, p)
    [] adapter = "mouse" /\ kind = "end" -> IntroSlideOnMouseUp(s)
    [] adapter = "mouse" /\ kind = "leave" -> IntroSlideOnMouseLeave(s)
    [] OTHER -> Unhandled(s)

\* ---- the animated QuizApp (src/unnamed/part_002) ----
\* Number of slides of the loaded animated QuizApp.
AnimatedSlides == 2

\* Most timeouts of nextQuestion and prevQuestion pending at once.
MaxTimers == 2

\* part_002 lines 85-87.
SwipeIdle == [startX |-> 0, startY |-> 0, isDragging |-> FALSE]

\* part_002 lines 89-93.
SwipeHandleStart(s, p) ==
  [st |-> [startX |-> p.x, startY |-> p.y, isDragging |-> TRUE], calls |-> <<>>]

\* part_002 lines 102-108.
SwipeDecision(deltaX, deltaY) ==
  IF Abs(deltaX) > Abs(deltaY) /\ Abs(deltaX) > SwipeDistance
    THEN IF deltaX > 0 THEN <<"prevQuestion">> ELSE <<"nextQuestion">>
    ELSE <<>>

\* part_002 lines 95-111.
SwipeHandleEnd(s, p) ==
  IF ~s.isDragging THEN Unhandled(s)
  ELSE [st |-> [s EXCEPT !.isDragging = FALSE],
        calls |-> SwipeDecision(p.x - s.startX, p.y - s.startY)]

\* part_002 lines 131-134: the document listens to mousedown, mouseup, touchstart
\* and touchend.
SwipeHandle(s, kind, p) ==
  CASE kind = "start" -> SwipeHandleStart(s, p)
    [] kind = "end" -> SwipeHandleEnd(s, p)
    [] OTHER -> Unhandled(s)

\* part_002 lines 65, 70 and 142: the swipe effect has no dependencies, so its
\* listeners keep the nextQuestion and prevQuestion of the first render.
MountClosure == [currentIndex |-> 0, slidesLength |-> 0]

\* The loaded component at its first slide, no timeout pending; `scheduled` is
\* the sum of the index updates scheduled since the last start event.  The
\* keydown listener (part_002 lines 341-344) is registered anew only when
\* currentIndex changes: the load leaves the one of the first render.
AnimatedLoaded ==
  [currentIndex |-> 0, slidesLength |-> AnimatedSlides, timers |-> <<>>, scheduled |-> 0,
   keyHandler |-> MountClosure]

\* The nextQuestion and prevQuestion the current render hands to QuizCard
\* (part_002 lines 472-473).
RenderClosure(a) == [currentIndex |-> a.currentIndex, slidesLength |-> a.slidesLength]

\* part_002 lines 311-320, called through closure c: the index update waits in a
\* timeout.
AnimatedNextQuestion(c, a) ==
  IF c.currentIndex < c.slidesLength - 1
    THEN [a EXCEPT !.timers = Append(@, 1), !.scheduled = @ + 1]
    ELSE a

\* part_002 lines 322-331, called through closure c.
AnimatedPrevQuestion(c, a) ==
  IF c.currentIndex > 0
    THEN [a EXCEPT !.timers = Append(@, -1), !.scheduled = @ - 1]
    ELSE a

\* The callbacks of a handler, invoked in order: QuizCard's onSwipeLeft is
\* nextQuestion and its onSwipeRight is prevQuestion (part_002 lines 472-473).
RECURSIVE Invoke(_, _, _)
Invoke(calls, c, a) ==
  IF calls = <<>> THEN a
  ELSE Invoke(Tail(calls), c,
              IF Head(calls) \in {"onSwipeLeft", "nextQuestion"}
                THEN AnimatedNextQuestion(c, a)
                ELSE AnimatedPrevQuestion(c, a))

\* QuizCard.tsx lines 301 and 307 (w-20) and line 284 (max-w-[500px]); the card's
\* left edge is at x = 0.
ClickZoneWidth == 80
CardWidth == 500

ClickZone(p) ==
  IF p.x < ClickZoneWidth THEN "left"
  ELSE IF p.x >= CardWidth - ClickZoneWidth THEN "right"
  ELSE "content"

\* QuizCard.tsx lines 299-309.
QuizCardOnClick(zone) ==
  IF zone = "left" THEN <<"onSwipeRight">>
  ELSE IF zone = "right" THEN <<"onSwipeLeft">>
  ELSE <<>>

\* ---- events ----
Kinds == {"start", "move", "end", "leave"}

Mounts ==
  {[component |-> "QuizApp", input |-> "mouse"]}
    \cup [component : {"StackedCards", "QuizCard", "IntroSlide"},
          input : {"mouse", "touch", "both"}]
    \cup [component : {"AnimatedQuizApp"}, input : {"mouse", "touch"}]

TrackIdle ==
  [active |-> FALSE, moved |-> FALSE, origin |-> Origin, latest |-> Origin,
   kind |-> "none", released |-> FALSE]

\* What the events tell about the pointer: pressed since the last start, moved
\* since then, where it was pressed and where it was seen last.
Observed(kind, p) ==
  [active |-> kind = "start" \/ (kind = "move" /\ track.active),
   moved |-> IF kind = "start" THEN FALSE
             ELSE track.moved \/ (kind = "move" /\ track.active),
   origin |-> IF kind = "start" THEN p ELSE track.origin,
   latest |-> IF kind = "start" \/ (kind \in {"move", "end"} /\ track.active)
                THEN p ELSE track.latest,
   kind |-> kind,
   released |-> kind \in {"end", "leave"} /\ track.active]

\* The state with component m mounted and no event received yet.
GestureIdle(m) ==
  /\ mounted = m
  /\ dragState = DragStateIdle
  /\ touchTwin = DragStateIdle
  /\ quizCard = QuizCardIdle
  /\ introSlide = IntroSlideIdle
  /\ swipe = SwipeIdle
  /\ animated = AnimatedLoaded
  /\ track = TrackIdle
  /\ mouseCalls = <<>>
  /\ touchCalls = <<>>
  /\ documentCalls = <<>>

InitGestureVars == GestureIdle([component |-> "QuizApp", input |-> "mouse"])

\* The pointer leaves the surface: a mouse event only.
Feeds(kind) == kind = "leave" => mounted.input = "mouse"

\* An event sent to StackedCards through the mounted adapter; with both adapters,
\* the mouse handlers of one instance and the touch handlers of its twin.
StackedCardsEvent(kind, p) ==
  /\ mounted.component = "StackedCards"
  /\ Feeds(kind)
  /\ LET m == IF mounted.input = "touch" THEN Unhandled(dragState)
              ELSE StackedCardsHandle(dragState, "mouse", kind, p)
         t == IF mounted.input = "touch" THEN StackedCardsHandle(dragState, "touch", kind, p)
              ELSE IF mounted.input = "both"
                THEN StackedCardsHandle(touchTwin, "touch", kind, p)
                ELSE Unhandled(touchTwin)
     IN /\ dragState' = IF mounted.input = "touch" THEN t.st ELSE m.st
        /\ touchTwin' = IF mounted.input = "both" THEN t.st ELSE touchTwin
        /\ mouseCalls' = m.calls
        /\ touchCalls' = t.calls
  /\ track' = Observed(kind, p)
  /\ UNCHANGED <<mounted, quizCard, introSlide, swipe, animated, documentCalls>>
  /\ UNCHANGED <<appVars, shuffleVars, loadVars>>

\* An event sent to QuizCard through the mounted adapter, or through both.
QuizCardEvent(kind, p) ==
  /\ mounted.component = "QuizCard"
  /\ Feeds(kind)
  /\ LET m == IF mounted.input = "touch" THEN Unhandled(quizCard)
              ELSE QuizCardHandle(quizCard, "mouse", kind, p)
         t == IF mounted.input = "mouse" THEN Unhandled(m.st)
              ELSE QuizCardHandle(m.st, "touch", kind, p)
     IN /\ quizCard' = t.st
        /\ mouseCalls' = m.calls
        /\ touchCalls' = t.calls
  /\ track' = Observed(kind, p)
  /\ UNCHANGED <<mounted, dragState, touchTwin, introSlide, swipe, animated, documentCalls>>
  /\ UNCHANGED <<appVars, shuffleVars, loadVars>>

\* An event sent to IntroSlide through the mounted adapter, or through both.
IntroSlideEvent(kind, p) ==
  /\ mounted.component = "IntroSlide"
  /\ Feeds(kind)
  /\ LET m == IF mounted.input = "touch" THEN Unhandled(introSlide)
              ELSE IntroSlideHandle(introSlide, "mouse", kind, p)
         t == IF mounted.input = "mouse" THEN Unhandled(m.st)
              ELSE IntroSlideHandle(m.st, "touch", kind, p)
     IN /\ introSlide' = t.st
        /\ mouseCalls' = m.calls
        /\ touchCalls' = t.calls
  /\ track' = Observed(kind, p)
  /\ UNCHANGED <<mounted, dragState, touchTwin, quizCard, swipe, animated, documentCalls>>
  /\ UNCHANGED <<appVars, shuffleVars, loadVars>>

\* A release over the element that was pressed is followed by the click the
\* browser dispatches for it: after a mouse release, or after a touch that did
\* not move.
ClickPending ==
  /\ mounted.component = "AnimatedQuizApp"
  /\ track.kind = "end"
  /\ track.released
  /\ mounted.input = "touch" => ~track.moved
  /\ ClickZone(track.origin) = ClickZone(track.latest)

\* An event over the card of the animated QuizApp: the card's handler runs with
\* the callbacks of the current render, then the document's listener with those
\* of the first render.
AnimatedEvent(kind, p) ==
  /\ mounted.component = "AnimatedQuizApp"
  /\ ~ClickPending
  /\ Feeds(kind)
  /\ LET card == QuizCardHandle(quizCard, mounted.input, kind, p)
         doc == SwipeHandle(swipe, kind, p)
         base == IF kind = "start" THEN [animated EXCEPT !.scheduled = 0] ELSE animated
         afterCard == Invoke(card.calls, RenderClosure(animated), base)
         afterDocument == Invoke(doc.calls, MountClosure, afterCard)
     IN /\ Len(afterDocument.timers) <= MaxTimers
        /\ quizCard' = card.st
        /\ swipe' = doc.st
        /\ animated' = afterDocument
        /\ mouseCalls' = IF mounted.input = "mouse" THEN card.calls ELSE <<>>
        /\ touchCalls' = IF mounted.input = "touch" THEN card.calls ELSE <<>>
        /\ documentCalls' = doc.calls
  /\ track' = Observed(kind, p)
  /\ UNCHANGED <<mounted, dragState, touchTwin, introSlide>>
  /\ UNCHANGED <<appVars, shuffleVars, loadVars>>

\* QuizCard.tsx lines 299-309, with the callbacks of the current render.
AnimatedClick ==
  /\ ClickPending
  /\ LET calls == QuizCardOnClick(ClickZone(track.origin))
         after == Invoke(calls, RenderClosure(animated), animated)
     IN /\ Len(after.timers) <= MaxTimers
        /\ animated' = after
        /\ mouseCalls' = calls
        /\ touchCalls' = <<>>
        /\ documentCalls' = <<>>
  /\ track' = [track EXCEPT !.kind = "click"]
  /\ UNCHANGED <<mounted, dragState, touchTwin, quizCard, introSlide, swipe>>
  /\ UNCHANGED <<appVars, shuffleVars, loadVars>>

\* part_002 lines 314-318 and 325-329: the oldest timeout runs its index update.
\* The click of a release is dispatched with the release, before any timeout.
TimeoutFires ==
  /\ mounted.component = "AnimatedQuizApp"
  /\ ~ClickPending
  /\ animated.timers # <<>>
  /\ animated' = [animated EXCEPT
                    !.currentIndex = @ + Head(animated.timers),
                    !.timers = Tail(@),
                    !.keyHandler = [currentIndex |-> animated.currentIndex + Head(animated.timers),
                                    slidesLength |-> animated.slidesLength]]
  /\ UNCHANGED <<mounted, dragState, touchTwin, quizCard, introSlide, swipe, track,
                 mouseCalls, touchCalls, documentCalls>>
  /\ UNCHANGED <<appVars, shuffleVars, loadVars>>

\* part_002 lines 333-339: handleKeyPress of the registered keydown listener.
AnimatedKeyPress(key) ==
  /\ mounted.component = "AnimatedQuizApp"
  /\ ~ClickPending
  /\ LET after == IF key = "ArrowLeft" THEN AnimatedPrevQuestion(animated.keyHandler, animated)
                  ELSE IF key = "ArrowRight"
                    THEN AnimatedNextQuestion(animated.keyHandler, animated)
                  ELSE animated
     IN /\ Len(after.timers) <= MaxTimers
        \* `scheduled` counts the updates of one pointer gesture; it starts anew
        /\ animated' = [after EXCEPT !.scheduled = 0]
  /\ UNCHANGED <<mounted, dragState, touchTwin, quizCard, introSlide, swipe, track,
                 mouseCalls, touchCalls, documentCalls>>
  /\ UNCHANGED <<appVars, shuffleVars, loadVars>>

\* part_002 lines 346-377: a change of the selection or of the mode; the filter
\* effect builds n slides and sets currentIndex to 0, the clamp effect finds the
\* index within bounds.  Pending timeouts are not cancelled.  The keydown
\* listener is registered anew if currentIndex changed.
AnimatedFilterChange(n) ==
  /\ mounted.component = "AnimatedQuizApp"
  /\ ~ClickPending
  /\ animated' = [animated EXCEPT
                    !.slidesLength = n,
                    !.currentIndex = ClampIndex(ResetIndex(@), n),
                    \* the count of scheduled updates starts anew with the new slides
                    !.scheduled = 0,
                    !.keyHandler = IF animated.currentIndex # 0
                                     THEN [currentIndex |-> 0, slidesLength |-> n]
                                     ELSE @]
  /\ UNCHANGED <<mounted, dragState, touchTwin, quizCard, introSlide, swipe, track,
                 mouseCalls, touchCalls, documentCalls>>
  /\ UNCHANGED <<appVars, shuffleVars, loadVars>>

(***************************************************************************)
(* parseCSV (QuizApp.tsx lines 201-248), one loop iteration per step.  A    *)
(* text and a field are sequences of characters.                            *)
(***************************************************************************)
\* longest text handed to parseCSV character by character
MaxText == 4

Quote == "\""
Comma == ","
LineBreaks == {"\n", "\r"}

\* The characters of the texts: the three kinds the scan tests for, a letter and
\* a blank.
Chars == {Quote, Comma, "a", " "} \cup LineBreaks

\* What String.prototype.trim strips from both ends.
WhiteSpace == {" "} \cup LineBreaks

\* Lines 221, 225, 226, 240, 241: current.trim().
RECURSIVE TrimStart(_)
TrimStart(f) ==
  IF f # <<>> /\ Head(f) \in WhiteSpace THEN TrimStart(Tail(f)) ELSE f

RECURSIVE TrimEnd(_)
TrimEnd(f) ==
  IF f # <<>> /\ f[Len(f)] \in WhiteSpace THEN TrimEnd(SubSeq(f, 1, Len(f) - 1)) ELSE f

Trim(f) == TrimEnd(TrimStart(f))

\* The quoted field of section 8 of the specification with one letter for each
\* word, "a, ""a""<newline>a", and a sheet of two rows ending without line break.
QuotedSample ==
  <<Quote, "a", Comma, " ", Quote, Quote, "a", Quote, Quote, "\n", "a", Quote>>

SheetSample == <<"a", Comma, "a", "\r", "\n", Comma, Comma, "\n", "a", Comma, Quote, Quote>>

\* The texts parseCSV is handed: every text of at most MaxText characters and
\* the two samples.
Texts == UNION {[1..n -> Chars] : n \in 0..MaxText} \cup {QuotedSample, SheetSample}

\* Lines 202-205; i counts from 1.
ParseStart(text) ==
  [csvText |-> text, i |-> 1, current |-> <<>>, inQuotes |-> FALSE, row |-> <<>>,
   result |-> <<>>, pc |-> "scan"]

\* Lines 227, 242: row.some(field => field.length > 0).
SomeFieldNonEmpty(row) == \E k \in 1..Len(row) : Len(row[k]) > 0

\* Lines 225, 240: current.trim() || row.length > 0.
Pending(s) == Trim(s.current) # <<>> \/ Len(s.row) > 0

\* Lines 226-229 and 241-244: the pending field is pushed to the row, and the row
\* to the result if one of its fields is not empty.
PushRow(s) ==
  LET row == Append(s.row, Trim(s.current))
  IN [s EXCEPT !.row = row,
               !.result = IF SomeFieldNonEmpty(row) THEN Append(@, row) ELSE @]

\* Line 208.
CharAt(s) == s.csvText[s.i]

\* Line 211: csvText[i + 1] === '"' (undefined past the end of the text).
NextIsQuote(s) == s.i + 1 <= Len(s.csvText) /\ s.csvText[s.i + 1] = Quote

\* Lines 210-218.
QuoteBranchAnyState(s) ==
  IF NextIsQuote(s)
    THEN [s EXCEPT !.current = Append(@, Quote), !.i = @ + 2]
    ELSE [s EXCEPT !.inQuotes = ~@, !.i = @ + 1]

QuoteBranch(s) ==
  IF s.inQuotes /\ NextIsQuote(s)
    THEN [s EXCEPT !.current = Append(@, Quote), !.i = @ + 2]
    ELSE [s EXCEPT !.inQuotes = ~@, !.i = @ + 1]

\* Lines 219-222.
FieldSeparatorBranch(s) ==
  [s EXCEPT !.row = Append(@, Trim(s.current)), !.current = <<>>, !.i = @ + 1]

\* Lines 223-232.
RowSeparatorAlways(s) ==
  LET row == Append(s.row, Trim(s.current))
  IN [s EXCEPT !.result = Append(@, row), !.row = <<>>, !.current = <<>>, !.i = @ + 1]

RowSeparatorBranch(s) ==
  IF Pending(s)
    THEN [PushRow(s) EXCEPT !.row = <<>>, !.current = <<>>, !.i = @ + 1]
    ELSE [s EXCEPT !.i = @ + 1]

\* Lines 233-236.
RegularBranchSkipsBreaks(s) ==
  IF CharAt(s) \in LineBreaks \cup {Comma} THEN [s EXCEPT !.i = @ + 1]
  ELSE [s EXCEPT !.current = Append(@, CharAt(s)), !.i = @ + 1]

RegularBranch(s) == [s EXCEPT !.current = Append(@, CharAt(s)), !.i = @ + 1]

\* Lines 239-247.
FinalFlush(s) ==
  IF Pending(s) THEN [PushRow(s) EXCEPT !.pc = "done"] ELSE [s EXCEPT !.pc = "done"]

\* Lines 207-247: the iteration at position i, or the flush after the loop.
Scanning(s) == s.pc = "scan" /\ s.i <= Len(s.csvText)

ScanStep(s) ==
  IF ~Scanning(s) THEN FinalFlush(s)
  ELSE IF CharAt(s) = Quote THEN QuoteBranch(s)
  ELSE IF CharAt(s) = Comma /\ ~s.inQuotes THEN FieldSeparatorBranch(s)
  ELSE IF CharAt(s) \in LineBreaks /\ ~s.inQuotes THEN RowSeparatorBranch(s)
  ELSE RegularBranch(s)

\* Lines 201-248: the rows parseCSV returns.
RECURSIVE ScanFrom(_)
ScanFrom(s) == IF s.pc = "done" THEN s.result ELSE ScanFrom(ScanStep(s))

ParseCSV(text) == ScanFrom(ParseStart(text))

\* No text is being parsed.
ParseIdle == ParseStart(<<>>)

NotFetched ==
  [rows |-> <<>>, i |-> 1, questions |-> <<>>, introContent |-> <<>>, pc |-> "idle",
   requests |-> <<>>]

LoadIdle == parse = ParseIdle /\ fetched = NotFetched

InitParse ==
  /\ InitApp /\ ShuffleIdle /\ InitGestureVars
  /\ \E text \in Texts : parse = ParseStart(text)
  /\ fetched = NotFetched

\* The steps of parseCSV.
QuoteChar ==
  /\ Scanning(parse) /\ CharAt(parse) = Quote
  /\ parse' = ScanStep(parse)
  /\ UNCHANGED <<appVars, shuffleVars, gestureVars, fetched>>

FieldSeparator ==
  /\ Scanning(parse) /\ CharAt(parse) = Comma /\ ~parse.inQuotes
  /\ parse' = ScanStep(parse)
  /\ UNCHANGED <<appVars, shuffleVars, gestureVars, fetched>>

RowSeparator ==
  /\ Scanning(parse) /\ CharAt(parse) \in LineBreaks /\ ~parse.inQuotes
  /\ parse' = ScanStep(parse)
  /\ UNCHANGED <<appVars, shuffleVars, gestureVars, fetched>>

RegularChar ==
  /\ Scanning(parse)
  /\ CharAt(parse) # Quote
  /\ parse.inQuotes \/ CharAt(parse) \notin LineBreaks \cup {Comma}
  /\ parse' = ScanStep(parse)
  /\ UNCHANGED <<appVars, shuffleVars, gestureVars, fetched>>

EndOfText ==
  /\ parse.pc = "scan" /\ parse.i > Len(parse.csvText)
  /\ parse' = ScanStep(parse)
  /\ UNCHANGED <<appVars, shuffleVars, gestureVars, fetched>>

NextParse == QuoteChar \/ FieldSeparator \/ RowSeparator \/ RegularChar \/ EndOfText

(***************************************************************************)
(* The row loop of fetchQuestions (QuizApp.tsx lines 252-275), one row per  *)
(* step, and the population of the state from its records (lines 277-328).  *)
(* A field of a parsed row is a string here.                                *)
(***************************************************************************)
\* most rows of a loaded sheet
MaxRows == 2

\* Lines 256, 264, 269, 286: String.prototype.toLowerCase on the fields used.
ToLowerCase(f) ==
  CASE f = "Category" -> "category"
    [] f = "Question" -> "question"
    [] f \in {"Intro", "INTRO"} -> "intro"
    [] f \in {"Aktion", "AKTION"} -> "aktion"
    [] f = "Frage" -> "frage"
    [] f = "A" -> "a"
    [] f = "B" -> "b"
    [] OTHER -> f

\* Line 256: String.prototype.includes on the lower-case fields used.
Includes(f, part) ==
  CASE part = "categor" -> f \in {"category", "categor"}
    [] part = "question" -> f \in {"question"}
    [] OTHER -> f = part

\* The rows a sheet is made of: header rows in both column orders, intro rows,
\* rows with and without a content type, rows lacking a leading field.
RowKinds ==
  { <<"Category", "Question">>, <<"Question", "Category">>,
    <<"Intro", "i1">>, <<"INTRO", "i2", "Frage">>,
    <<"A", "q1">>, <<"AKTION", "q2", "">>, <<"B", "q3", "Aktion">>,
    <<"A">>, <<"", "q1", "Frage">> }

\* Line 250: the rows parseCSV returned.
RowInputs == UNION {[1..n -> RowKinds] : n \in 0..MaxRows}

\* Line 256: values[0]?.toLowerCase().includes('categor') ||
\* values[1]?.toLowerCase().includes('question').
IsHeaderRowEitherField(values) ==
  \E k \in 1..Min(2, Len(values)) :
    \/ Includes(ToLowerCase(values[k]), "categor")
    \/ Includes(ToLowerCase(values[k]), "question")

IsHeaderRow(values) ==
  \/ Len(values) >= 1 /\ Includes(ToLowerCase(values[1]), "categor")
  \/ Len(values) >= 2 /\ Includes(ToLowerCase(values[2]), "question")

\* Line 260: values.length >= 2 && values[0] && values[1].
HasLeadingFieldsAnyTwo(values) ==
  Cardinality({k \in 1..Len(values) : values[k] # ""}) >= 2

HasLeadingFields(values) == Len(values) >= 2 /\ values[1] # "" /\ values[2] # ""

\* Lines 261-266.
ToQuestion(values) ==
  [category |-> values[1],
   question |-> values[2],
   depth |-> IF ToLowerCase(values[1]) = "aktion" THEN "deep" ELSE "light",
   type |-> IF Len(values) >= 3 /\ values[3] # "" THEN values[3] ELSE "Frage"]

\* Line 269.
IsIntro(question) == ToLowerCase(question.category) = "intro"

\* Lines 197-198 and 250; i counts from 1, introContent is <<>> for null.
RowLoopStart(rows) ==
  [rows |-> rows, i |-> 1, questions |-> <<>>, introContent |-> <<>>, pc |-> "rows",
   requests |-> <<>>]

\* Lines 268-273.
KeepIntroAsQuestion(s, question) == [s EXCEPT !.questions = Append(@, question)]

KeepQuestion(s, question) ==
  IF IsIntro(question)
    THEN [s EXCEPT !.introContent = <<question>>]
    ELSE [s EXCEPT !.questions = Append(@, question)]

\* Lines 253-274: the iteration for row i.
RowResultKeepsHeader(s) ==
  LET values == s.rows[s.i]
      next == [s EXCEPT !.i = @ + 1]
  IN IF HasLeadingFields(values) THEN KeepQuestion(next, ToQuestion(values)) ELSE next

RowResult(s) ==
  LET values == s.rows[s.i]
      next == [s EXCEPT !.i = @ + 1]
  IN IF s.i = 1 /\ IsHeaderRow(values) THEN next
     ELSE IF HasLeadingFields(values) THEN KeepQuestion(next, ToQuestion(values))
     ELSE next

\* Lines 252-275: questions and introContent after the loop.
RECURSIVE RowLoop(_)
RowLoop(s) == IF s.i > Len(s.rows) THEN s ELSE RowLoop(RowResult(s))

InitLoad ==
  /\ InitApp /\ ShuffleIdle /\ InitGestureVars
  /\ parse = ParseIdle
  /\ \E rows \in RowInputs : fetched = RowLoopStart(rows)

\* One iteration of the row loop.
RowStep ==
  /\ fetched.pc = "rows"
  /\ fetched.i <= Len(fetched.rows)
  /\ fetched' = RowResult(fetched)
  /\ UNCHANGED <<appVars, shuffleVars, gestureVars, parse>>

\* Lines 277-328: the state is populated from the records of the loop.
PopulateState ==
  /\ fetched.pc = "rows"
  /\ fetched.i > Len(fetched.rows)
  /\ FetchQuestionsDone(fetched.questions)

NextLoad ==
  \/ RowStep
  \/ PopulateState
  \/ \E cats \in SUBSET availableCategories : HandleCategoriesChange(cats)
  \/ OnCheckedChange

\* fetchQuestions from the parsed rows on, and the filter controls.
SpecLoad == InitLoad /\ [][NextLoad]_vars

(***************************************************************************)
(* fetchQuestions from its first await on (QuizApp.tsx lines 164-329).  A   *)
(* fetch delivers a text, here given as the rows parseCSV makes of it, or   *)
(* fails: the promise rejects, the status is not ok, or reading the body    *)
(* rejects.                                                                 *)
(***************************************************************************)
\* Lines 169-196: what a request for a text can deliver.
SampleRows == << <<"Category", "Question">>, <<"A", "q1">>, <<"B", "q3", "Aktion">> >>

FetchedSheets == {<<>>, SampleRows} \cup {<<values>> : values \in RowKinds}

Request(url, ok) == [url |-> url, ok |-> ok]

\* Line 174: the request for the spreadsheet export is pending.
FetchStart == [NotFetched EXCEPT !.pc = "sheets"]

InitFetch ==
  /\ InitApp /\ ShuffleIdle /\ InitGestureVars
  /\ parse = ParseIdle
  /\ fetched = FetchStart

\* Lines 174-184 and 196-250: the spreadsheet export arrives.
SheetsResponds(rows) ==
  /\ fetched.pc = "sheets"
  /\ fetched' = [RowLoopStart(rows) EXCEPT
                   !.requests = Append(fetched.requests, Request("sheets", TRUE))]
  /\ UNCHANGED <<appVars, shuffleVars, gestureVars, parse>>

\* Lines 174-188: the request fails; the catch block requests the local file.
SheetsFails ==
  /\ fetched.pc = "sheets"
  /\ fetched' = [fetched EXCEPT !.pc = "local",
                                !.requests = Append(@, Request("sheets", FALSE))]
  /\ UNCHANGED <<appVars, shuffleVars, gestureVars, parse>>

\* Lines 188-193 and 196-250: the local file arrives.
LocalResponds(rows) ==
  /\ fetched.pc = "local"
  /\ fetched' = [RowLoopStart(rows) EXCEPT
                   !.requests = Append(fetched.requests, Request("local", TRUE))]
  /\ UNCHANGED <<appVars, shuffleVars, gestureVars, parse>>

\* Lines 188-191: the local request fails too; the error leaves the outer try.
LocalFails ==
  /\ fetched.pc = "local"
  /\ fetched' = [fetched EXCEPT !.pc = "catch",
                                !.requests = Append(@, Request("local", FALSE))]
  /\ UNCHANGED <<appVars, shuffleVars, gestureVars, parse>>

\* Lines 324-328: the catch block logs the error, the finally block runs.
CatchFinally ==
  /\ fetched.pc = "catch"
  /\ FetchQuestionsFails

\* The steps of fetchQuestions itself.
FetchProgress ==
  \/ \E rows \in FetchedSheets : SheetsResponds(rows)
  \/ SheetsFails
  \/ \E rows \in FetchedSheets : LocalResponds(rows)
  \/ LocalFails
  \/ CatchFinally
  \/ RowStep
  \/ PopulateState

NextFetch ==
  \/ FetchProgress
  \/ OnCheckedChange

\* fetchQuestions with its two requests; the mode switch can be used meanwhile.
SpecFetch == InitFetch /\ [][NextFetch]_vars

\* Every request settles, and the continuation of a settled await runs.
SpecFetchFair == SpecFetch /\ WF_vars(FetchProgress)

InitSelector == InitApp /\ ShuffleIdle /\ InitGestureVars /\ LoadIdle

\* The load and the events of the category dialog.
NextSelector ==
  \/ \E qs \in LoadInputs : FetchQuestionsDone(qs)
  \/ OpenSelector
  \/ \E category \in Categories : HandleCategoryToggle(category)
  \/ HandleClose
  \/ DismissSelector
  \/ OnCheckedChange

\* QuizApp with its category dialog.
SpecSelector == InitSelector /\ [][NextSelector]_vars

Init == InitApp /\ ShuffleIdle /\ InitGestureVars /\ LoadIdle

Next ==
  \/ \E qs \in LoadInputs : FetchQuestionsDone(qs)
  \/ FetchQuestionsFails
  \/ \E key \in Keys : HandleKeyPress(key)
  \/ \E p \in Points : HandleStart(p)
  \/ \E p \in Points : HandleMove(p)
  \/ \E p \in Points : HandleEnd(p)
  \/ \E cats \in SUBSET availableCategories : HandleCategoriesChange(cats)
  \/ OnCheckedChange

Spec == Init /\ [][Next]_vars

InitShuffle == InitApp /\ InitShuffleVars /\ InitGestureVars /\ LoadIdle

SpecShuffle == InitShuffle /\ [][NextShuffle]_vars

SpecShuffleFair == SpecShuffle /\ WF_vars(NextShuffle)

\* The gesture trackers: one component is mounted and receives pointer events.
InitGesture == InitApp /\ ShuffleIdle /\ LoadIdle /\ \E m \in Mounts : GestureIdle(m)

NextGesture ==
  \/ \E qs \in LoadInputs : mounted.component = "QuizApp" /\ FetchQuestionsDone(qs)
  \/ \E p \in Points2D : mounted.component = "QuizApp" /\ HandleStart(p)
  \/ \E p \in Points2D : mounted.component = "QuizApp" /\ HandleMove(p)
  \/ \E p \in Points2D : mounted.component = "QuizApp" /\ HandleEnd(p)
  \/ \E kind \in Kinds, p \in Points2D : StackedCardsEvent(kind, p)
  \/ \E kind \in Kinds, p \in CardPoints : QuizCardEvent(kind, p)
  \/ \E kind \in Kinds, p \in CardPoints : IntroSlideEvent(kind, p)
  \/ \E kind \in Kinds, p \in CardPoints : AnimatedEvent(kind, p)
  \/ AnimatedClick
  \/ TimeoutFires

SpecGesture == InitGesture /\ [][NextGesture]_vars

\* The animated QuizApp: pointer events on its card, key presses, timeouts and
\* filter changes.
InitAnimated ==
  /\ InitApp /\ ShuffleIdle /\ LoadIdle
  /\ \E m \in Mounts : m.component = "AnimatedQuizApp" /\ GestureIdle(m)

\* Pointer positions on the card of the animated QuizApp: inside the left click
\* area, and two positions a swipe apart.
SwipePoints == [x : {10, 110}, y : {0}]

NextAnimated ==
  \/ \E kind \in Kinds, p \in SwipePoints : AnimatedEvent(kind, p)
  \/ AnimatedClick
  \/ TimeoutFires
  \/ \E key \in Keys : AnimatedKeyPress(key)
  \/ \E n \in 0..AnimatedSlides : AnimatedFilterChange(n)

SpecAnimated == InitAnimated /\ [][NextAnimated]_vars

\* The content-type controls of the animated QuizApp: the load, the switch, the
\* two mode labels, the category dialog's result and navigation by keys.
NextMode ==
  \/ \E qs \in LoadInputs : FetchQuestionsDone(qs)
  \/ OnCheckedChange
  \/ \E mixed \in BOOLEAN : OnModeLabelClick(mixed)
  \/ \E cats \in SUBSET availableCategories : HandleCategoriesChange(cats)
  \/ \E key \in Keys : KeyPressAndTimeout(key)

SpecMode == InitAnimated /\ [][NextMode]_vars

\* parseCSV alone, on every text.
SpecParse == InitParse /\ [][NextParse]_vars


(***************************************************************************)
(* Properties of the slide navigator.                                       *)
(***************************************************************************)
\* Section 3 of the specification, Navigation Position.
InBounds ==
  IF Len(slides) > 0
    THEN 0 <= currentIndex /\ currentIndex <= Len(slides) - 1
    ELSE currentIndex = 0

\* Section 4.4 of the specification: advance() and retreat() on the current state.
Advance(i, length) == IF i < length - 1 THEN i + 1 ELSE i
Retreat(i) == IF i > 0 THEN i - 1 ELSE i

\* C1: with the slide sequence held fixed (the registered listeners read the
\* length of the current sequence and the step leaves the sequence alone), a step
\* taken from a state within bounds ends within bounds.
C1_RequestsKeepBounds ==
  [][(/\ InBounds
      /\ slides' = slides
      /\ keyHandler.slidesLength = Len(slides)
      /\ dragHandlers.slidesLength = Len(slides)) => InBounds']_vars

\* C2: the bounds invariant holds in every reachable state, filter changes included.
C2_BoundsInvariant == InBounds

\* C3: a filter recomputation leaves currentIndex = 0 together with a slide
\* sequence built from the filtered records, whatever currentIndex was before.
C3_FilterResetsIndex ==
  last.filterRan => currentIndex = 0 /\ slides \in BuildSlides(Hooks)

C3_Witness ==
  /\ last.filterRan
  /\ last.index > 0
  /\ Len(slides) > 1
  /\ currentIndex = 0

\* C4 as stated: replacing the sequence by a shorter one while currentIndex is
\* beyond its end leaves currentIndex = min(currentIndex, newSlides.length - 1),
\* or 0 for an empty sequence.
C4_ReplaceClamps ==
  (last.filterRan /\ Len(slides) < last.length /\ last.index >= Len(slides))
    => currentIndex = (IF Len(slides) = 0 THEN 0 ELSE Min(last.index, Len(slides) - 1))

\* C4 amended: replacing the sequence by a shorter one while currentIndex is
\* beyond its end leaves currentIndex = 0.
C4_ReplaceResets ==
  (last.filterRan /\ Len(slides) < last.length /\ last.index >= Len(slides))
    => currentIndex = 0

C4_Witness ==
  /\ last.filterRan
  /\ Len(slides) < last.length
  /\ last.index >= Len(slides)
  /\ Len(slides) >= 2
  /\ currentIndex = 0

\* C5: an advance request increments currentIndex by one when currentIndex <
\* slides.length - 1 in the current state and changes nothing otherwise, a retreat
\* request decrements it when currentIndex > 0 and changes nothing otherwise, and
\* neither touches the slide sequence; for the requests of the keydown listener
\* and, while the drag listeners see a drag, for the request of handleEnd.
C5_RequestsReadCurrentState ==
  /\ NextQuestion(keyHandler, Hooks) =
       [Hooks EXCEPT !.currentIndex = Advance(currentIndex, Len(slides))]
  /\ PrevQuestion(keyHandler, Hooks) =
       [Hooks EXCEPT !.currentIndex = Retreat(currentIndex)]
  /\ dragHandlers.isDragging =>
       NextQuestion(dragHandlers, Hooks) =
         [Hooks EXCEPT !.currentIndex = Advance(currentIndex, Len(slides))]

\* C6: in every reachable state ArrowRight has the effect of advance(), ArrowLeft
\* that of retreat(), and any other key leaves slides and currentIndex unchanged.
C6_KeysAreAdvanceRetreat ==
  \A key \in Keys :
    LET after == KeyPressResult(key, keyHandler, Hooks)
    IN /\ after.slides = slides
       /\ after.currentIndex =
            (IF key = "ArrowRight" THEN Advance(currentIndex, Len(slides))
             ELSE IF key = "ArrowLeft" THEN Retreat(currentIndex)
             ELSE currentIndex)

\* The component after k ArrowRight presses handled one after the other.
RECURSIVE AfterAdvances(_, _)
AfterAdvances(h, k) ==
  IF k = 0 THEN h
  ELSE LET before == AfterAdvances(h, k - 1)
       IN CHOOSE done \in RunEffects(before,
                                     KeyPressResult("ArrowRight", before.keyHandler, before),
                                     NoRefs) : TRUE

\* C7: after a successful load of n >= 1 records, all categories selected and
\* mixed mode on, the slide sequence has length n and k advance requests lead
\* from index 0 to index k, for every k < n.
C7_LoadedSequenceIsWalkable ==
  (/\ ~loading
   /\ last.filterRan
   /\ Len(allQuestions) >= 1
   /\ selectedCategories = availableCategories
   /\ isMixedMode)
    => /\ Len(slides) = Len(allQuestions)
       /\ currentIndex = 0
       /\ \A k \in 0..(Len(slides) - 1) : AfterAdvances(Hooks, k).currentIndex = k

(***************************************************************************)
(* Properties of smartShuffle.                                              *)
(***************************************************************************)
\* How often record q occurs in sequence s.
Occurrences(s, q) == Cardinality({i \in 1..Len(s) : s[i] = q})

IsPermutation(s, t) ==
  /\ Len(s) = Len(t)
  /\ \A q \in Range(s) \cup Range(t) : Occurrences(s, q) = Occurrences(t, q)

\* C8: for every input, smartShuffle returns a sequence of the same length that
\* contains every input record exactly once.
C8_ShuffleIsPermutation ==
  ShuffleReturned => pc = "done" /\ IsPermutation(result, input)

\* What holds of C8 on the code: a call that returns, returns a permutation.
ReturnedIsPermutation == pc = "done" => IsPermutation(result, input)

\* The function form and the statement form of smartShuffle agree.
ReturnedIsShuffleValue == pc = "done" => result \in SmartShuffle(input)

\* C9: within one round each category emits at most one record, only categories
\* with unconsumed records at the start of the round emit, and when the round is
\* over each of those has emitted exactly one.
C9_OneRecordPerCategoryPerRound ==
  /\ \A i, j \in 1..Len(roundEmitted) : roundEmitted[i] = roundEmitted[j] => i = j
  /\ Range(roundEmitted) \subseteq roundPending
  /\ pc \in {"while", "done"} => Range(roundEmitted) = roundPending

C9_Witness ==
  /\ pc = "while"
  /\ Cardinality(Range(categories)) >= 3
  /\ roundPending # {}
  /\ roundPending # Range(categories)
  /\ Range(roundEmitted) = roundPending

\* Every category's counter has reached the length of its group.
CountersComplete ==
  \A c \in Range(categories) : categoryCounters[c] = Len(categorizedQuestions[c])

\* C10: smartShuffle terminates; the while loop ends exactly when every
\* category's counter equals its group's length, and each round that starts with
\* records remaining emits at least one record.
C10_ShuffleTerminates ==
  /\ [](pc = "while" => (AllEmitted(result, input) <=> CountersComplete))
  /\ [](pc = "done" => CountersComplete)
  /\ [](pc = "while" /\ roundPending # {} => roundEmitted # <<>>)
  /\ <>ShuffleReturned

C10_Witness ==
  /\ pc = "done"
  /\ Len(result) = MaxLen
  /\ Cardinality(Range(categories)) >= 2

\* C11: a record emitted right after a record of the same category is the first
\* of its round (the run of two crosses a round boundary), and when it is the
\* third of that category in a row, no other category had unconsumed records
\* when the second was emitted.
C11_RunsCrossRoundBoundaries ==
  [][(/\ Len(result') = Len(result) + 1
      /\ Len(result) >= 1
      /\ result'[Len(result')].category = result[Len(result)].category)
       => /\ Len(roundEmitted') = 1
          /\ (/\ Len(result) >= 2
              /\ result[Len(result) - 1].category = result[Len(result)].category)
               => \A c \in Range(categories) \ {result[Len(result)].category} :
                    categoryCounters[c] = Len(categorizedQuestions[c])]_vars

C11_Witness ==
  /\ pc = "done"
  /\ Cardinality(Range(categories)) >= 2
  /\ \E i \in 1..(Len(result) - 2) :
       /\ result[i].category = result[i + 1].category
       /\ result[i + 1].category = result[i + 2].category

(***************************************************************************)
(* Properties of the gesture trackers.                                      *)
(***************************************************************************)
\* One adapter feeds the mounted component.
SingleAdapter == mounted.input # "both"

\* The pointer positions the mounted component is sent.
EventPoints ==
  IF mounted.component \in {"QuizApp", "StackedCards"} THEN Points2D ELSE CardPoints

\* The mounted card component's tracker and its handlers.
CardTracker ==
  CASE mounted.component = "StackedCards" -> dragState
    [] mounted.component = "IntroSlide" -> introSlide
    [] OTHER -> quizCard

CardHandle(st, kind, p) ==
  CASE mounted.component = "StackedCards" -> StackedCardsHandle(st, mounted.input, kind, p)
    [] mounted.component = "IntroSlide" -> IntroSlideHandle(st, mounted.input, kind, p)
    [] OTHER -> QuizCardHandle(st, mounted.input, kind, p)

\* The pressed or dragging flag of a card tracker that has one.
CardFlag(st) ==
  CASE mounted.component = "StackedCards" -> st.isDragging
    [] mounted.component = "IntroSlide" -> mounted.input = "mouse" /\ st.isMousePressed
    [] OTHER -> mounted.input = "mouse" /\ st.isLocalDragging

\* Section 4.3 of the specification: the offset of the gesture in progress.
Offset == [x |-> track.latest.x - track.origin.x, y |-> track.latest.y - track.origin.y]

\* Idle as C12 describes it: the flag is down, a stored offset is (0,0), and a
\* move changes nothing.
CardIdle(st) ==
  /\ ~CardFlag(st)
  /\ mounted.component = "StackedCards" => st.currentX = 0 /\ st.currentY = 0
  /\ \A q \in EventPoints : CardHandle(st, "move", q).st = st

AppIdle(h) ==
  /\ ~h.isDragging
  /\ h.dragOffset = Origin
  /\ \A q \in EventPoints : HandleMoveResult(q, CaptureDrag(h), h) = h

\* C12: in every tracker an end event received while Dragging leaves the tracker
\* Idle with the offset reset to (0,0), so that later moves change no tracker state.
C12_EndLeavesIdle ==
  /\ (mounted.component = "QuizApp" /\ isDragging)
       => \A p \in EventPoints : AppIdle(HandleEndResult(p, dragHandlers, Hooks))
  /\ (mounted.component \in {"StackedCards", "QuizCard", "IntroSlide"}
        /\ SingleAdapter /\ track.active)
       => \A p \in EventPoints : CardIdle(CardHandle(CardTracker, "end", p).st)

\* C13: a two-dimensional tracker commits at the end exactly when the Euclidean
\* length of the offset exceeds its threshold: StackedCards with 100, the
\* document-level tracker of QuizApp with 200.
C13_EuclideanCommit ==
  /\ (mounted.component = "StackedCards" /\ SingleAdapter /\ track.active)
       => (CardHandle(dragState, "end", track.latest).calls # <<>>
             <=> Offset.x * Offset.x + Offset.y * Offset.y > minDragDistance * minDragDistance)
  /\ (mounted.component = "QuizApp" /\ isDragging)
       => \A p \in EventPoints :
            LET deltaX == p.x - dragStart.x
                deltaY == p.y - dragStart.y
            IN DragCommits(p.x - dragHandlers.dragStart.x, p.y - dragHandlers.dragStart.y)
                 <=> deltaX * deltaX + deltaY * deltaY > DragThreshold * DragThreshold

\* The one-dimensional commit decision of section 4.3 of the specification.
HorizontalCommit(offset) == Abs(offset.x) > 50 /\ Abs(offset.x) > Abs(offset.y)

\* C14: a horizontal swipe tracker (IntroSlide, QuizCard, the document-level
\* tracker of the animated QuizApp) commits at the end exactly when
\* |offset.x| > 50 and |offset.x| > |offset.y|.
C14_HorizontalCommit ==
  /\ (mounted.component \in {"QuizCard", "IntroSlide"} /\ SingleAdapter /\ track.active)
       => (CardHandle(CardTracker, "end", track.latest).calls # <<>>
             <=> HorizontalCommit(Offset))
  /\ (mounted.component = "AnimatedQuizApp" /\ track.active)
       => \A p \in EventPoints :
            SwipeHandleEnd(swipe, p).calls # <<>>
              <=> HorizontalCommit([x |-> p.x - track.origin.x, y |-> p.y - track.origin.y])

\* The callback section 8 of the specification expects for an offset along x.
ExpectedSwipe(x, forward, backward) ==
  IF x = -60 THEN <<forward>> ELSE IF x = 60 THEN <<backward>> ELSE <<>>

\* C15: in the horizontal swipe trackers an end with offset (60,0) or (-60,0)
\* commits and one with offset (40,0) does not; a negative offset.x invokes the
\* forward callback and a positive one the backward callback.
C15_SwipeThresholdAndDirection ==
  /\ (mounted.component \in {"QuizCard", "IntroSlide"} /\ SingleAdapter /\ track.active
        /\ Offset.y = 0 /\ Offset.x \in {-60, 40, 60})
       => CardHandle(CardTracker, "end", track.latest).calls
            = ExpectedSwipe(Offset.x, "onSwipeLeft", "onSwipeRight")
  /\ (mounted.component = "AnimatedQuizApp" /\ track.active)
       => \A p \in EventPoints :
            (p.y = track.origin.y /\ p.x - track.origin.x \in {-60, 40, 60})
              => SwipeHandleEnd(swipe, p).calls
                   = ExpectedSwipe(p.x - track.origin.x, "nextQuestion", "prevQuestion")

\* C16: a gesture that ends without any recorded move invokes no commit callback
\* and leaves the pressed or dragging flag down.
C16_EndWithoutMoveCancels ==
  /\ (mounted.component = "QuizApp" /\ isDragging)
       => LET after == HandleEndResult(dragStart, dragHandlers, Hooks)
          IN ~after.isDragging /\ after.currentIndex = currentIndex
  /\ (mounted.component \in {"StackedCards", "QuizCard", "IntroSlide"}
        /\ SingleAdapter /\ track.active /\ ~track.moved)
       => LET after == CardHandle(CardTracker, "end", track.origin)
          IN after.calls = <<>> /\ ~CardFlag(after.st)

\* C17: when the pointer leaves the surface while the tracker is Dragging, the
\* tracker takes the transition of an end event at the last tracked offset.
C17_LeaveIsEnd ==
  (mounted.component \in {"StackedCards", "QuizCard", "IntroSlide"}
     /\ mounted.input = "mouse" /\ track.active)
    => CardHandle(CardTracker, "leave", track.latest)
         = CardHandle(CardTracker, "end", track.latest)

\* C18: the same events fed through the mouse handlers and through the touch
\* handlers of a component leave the same tracker state and invoke the same
\* callbacks.
C18_MouseAndTouchAgree ==
  mounted.input = "both"
    => /\ mouseCalls = touchCalls
       /\ mounted.component = "StackedCards" => dragState = touchTwin
       /\ mounted.component = "QuizCard"
            => /\ quizCard.mouseStart = quizCard.touchStart
               /\ quizCard.mouseEnd = quizCard.touchEnd
       /\ mounted.component = "IntroSlide"
            => /\ introSlide.mouseStartX = introSlide.touchStartX
               /\ introSlide.mouseStartY = introSlide.touchStartY
               /\ introSlide.mouseEndX = introSlide.touchEndX
               /\ introSlide.mouseEndY = introSlide.touchEndY

\* C19: while Dragging, a move to (x, y) leaves the offset (x - origin.x,
\* y - origin.y) for the origin of the most recent start, and the stored offset is
\* that of the last move; a move received while Idle changes neither offset nor
\* origin.  For the two trackers that store an offset.
C19_MoveTracksOffset ==
  /\ mounted.component = "QuizApp"
       => \A p \in EventPoints :
            LET after == HandleMoveResult(p, dragHandlers, Hooks)
            IN IF isDragging
                 THEN after.dragOffset = [x |-> p.x - dragStart.x, y |-> p.y - dragStart.y]
                 ELSE after = Hooks
  /\ (mounted.component = "StackedCards" /\ SingleAdapter)
       => /\ track.active => dragState.currentX = Offset.x /\ dragState.currentY = Offset.y
          /\ \A p \in EventPoints :
               LET after == CardHandle(dragState, "move", p).st
               IN IF track.active
                    THEN /\ after.currentX = p.x - track.origin.x
                         /\ after.currentY = p.y - track.origin.y
                    ELSE after = dragState

C19_Witness ==
  /\ mounted.component = "StackedCards"
  /\ track.active
  /\ track.moved
  /\ track.origin # Origin
  /\ dragState.currentX > 0
  /\ dragState.currentY < 0

\* The events since the last start are those of one gesture: the pointer is still
\* pressed, or it was released once and at most the click of that release followed.
OneGesture == track.active \/ track.released

\* C20: one gesture, from its start to its end, changes currentIndex by at most
\* one step, whichever listeners observe it: it schedules at most one index update.
C20_OneStepPerGesture ==
  /\ (mounted.component = "AnimatedQuizApp" /\ OneGesture)
       => animated.scheduled \in {-1, 0, 1}
  /\ mounted.component = "QuizApp"
       => \A p \in EventPoints :
            HandleEndResult(p, dragHandlers, Hooks).currentIndex - currentIndex \in {0, 1}


(***************************************************************************)
(* Frame of the gesture handlers.                                           *)
(***************************************************************************)
\* The states the component can be in after a handler left h: the render and
\* the effects have run.
Settled(h, refs) == RunEffects(Hooks, h, refs)

SameNavigation(h) ==
  h.currentIndex = currentIndex /\ h.slides = slides /\ h.allQuestions = allQuestions

\* C21: start events, move events and cancelled end events leave currentIndex and
\* the slide sequence unchanged; an end changes navigation state at most by the
\* one step of its commit, and StackedCards invokes its callback only from an end
\* whose offset exceeds the distance.
C21_GesturesOnlyCommit ==
  /\ mounted.component = "QuizApp"
       => \A p \in Points2D :
            /\ \A h \in Settled(HandleStartResult(p, Hooks),
                                 [NoRefs EXCEPT !.dragStart = TRUE]) : SameNavigation(h)
            /\ \A h \in Settled(HandleMoveResult(p, dragHandlers, Hooks), NoRefs) :
                 SameNavigation(h)
            /\ \A h \in Settled(HandleEndResult(p, dragHandlers, Hooks), NoRefs) :
                 /\ h.slides = slides /\ h.allQuestions = allQuestions
                 /\ h.currentIndex \in {currentIndex, currentIndex + 1}
                 /\ ~DragCommits(p.x - dragHandlers.dragStart.x,
                                 p.y - dragHandlers.dragStart.y)
                      => h.currentIndex = currentIndex
  /\ (mounted.component = "StackedCards" /\ SingleAdapter)
       => \A p \in Points2D :
            /\ CardHandle(dragState, "start", p).calls = <<>>
            /\ CardHandle(dragState, "move", p).calls = <<>>
            /\ LET calls == CardHandle(dragState, "end", p).calls
               IN /\ Len(calls) <= 1
                  /\ calls # <<>>
                       => ExceedsDistance(dragState.currentX, dragState.currentY,
                                          minDragDistance)

\* A cancelled end on the second slide of a loaded QuizApp.
C21_Witness ==
  /\ mounted.component = "QuizApp"
  /\ currentIndex = 1
  /\ Len(slides) >= 2
  /\ ~isDragging
  /\ dragStart = [x |-> 80, y |-> 80]


(***************************************************************************)
(* Properties of parseCSV.                                                  *)
(***************************************************************************)
\* The iteration of parseCSV at position i ran.
Scanned == Scanning(parse) /\ parse'.i > parse.i

\* The field of QuotedSample: a, "a"<newline>a.
QuotedSampleField == <<"a", Comma, " ", Quote, "a", Quote, "\n", "a">>

\* C22: inside a quoted section a comma or a line break is appended to the current
\* field and ends neither the field nor the row, and a doubled quote appends one
\* quote; the quoted sample parses to one row of one field a, "a"<newline>a.
C22_QuotedSectionIsLiteral ==
  [][/\ (Scanned /\ parse.inQuotes /\ CharAt(parse) \in LineBreaks \cup {Comma})
          => /\ parse'.current = Append(parse.current, CharAt(parse))
             /\ parse'.row = parse.row
             /\ parse'.result = parse.result
             /\ parse'.inQuotes
     /\ (Scanned /\ parse.inQuotes /\ CharAt(parse) = Quote /\ NextIsQuote(parse))
          => /\ parse'.current = Append(parse.current, Quote)
             /\ parse'.row = parse.row
             /\ parse'.result = parse.result
     /\ (parse.csvText = QuotedSample /\ parse'.pc = "done")
          => parse'.result = << <<QuotedSampleField>> >>]_vars

C22_Witness ==
  /\ parse.csvText = QuotedSample
  /\ parse.pc = "done"
  /\ parse.result = << <<QuotedSampleField>> >>

\* C23 as stated: a quote followed by a second quote appends one quote, skips
\* the second and leaves inQuotes alone, whatever inQuotes is; every other quote
\* toggles inQuotes and appends nothing.
C23_DoubledQuoteAnywhere ==
  [][(Scanned /\ CharAt(parse) = Quote)
       => IF NextIsQuote(parse)
            THEN /\ parse'.current = Append(parse.current, Quote)
                 /\ parse'.i = parse.i + 2
                 /\ parse'.inQuotes = parse.inQuotes
            ELSE /\ parse'.inQuotes = ~parse.inQuotes
                 /\ parse'.current = parse.current
                 /\ parse'.i = parse.i + 1]_vars

\* C23 amended: a quote followed by a second quote while inQuotes is true appends
\* one quote, skips the second and leaves inQuotes true; every other quote, one
\* followed by a quote while inQuotes is false included, toggles inQuotes and
\* appends nothing.
C23_DoubledQuoteInsideQuotes ==
  [][(Scanned /\ CharAt(parse) = Quote)
       => IF parse.inQuotes /\ NextIsQuote(parse)
            THEN /\ parse'.current = Append(parse.current, Quote)
                 /\ parse'.i = parse.i + 2
                 /\ parse'.inQuotes
            ELSE /\ parse'.inQuotes = ~parse.inQuotes
                 /\ parse'.current = parse.current
                 /\ parse'.i = parse.i + 1]_vars

\* The text of four quotes: the first opens a quoted section although a quote
\* follows it, the second and third are an escaped quote, the fourth closes.
C23_Witness ==
  /\ parse.csvText = <<Quote, Quote, Quote, Quote>>
  /\ parse.pc = "done"
  /\ parse.result = << << <<Quote>> >> >>

\* C24: every emitted row has a non-empty field; a line break outside quotes with
\* nothing pending or with only empty fields pending emits no row; at the end of
\* the text the pending field and row are emitted when one of the fields is not
\* empty.
C24_RowsHaveContent ==
  [][/\ \A k \in 1..Len(parse'.result) : SomeFieldNonEmpty(parse'.result[k])
     /\ (Scanned /\ ~parse.inQuotes /\ CharAt(parse) \in LineBreaks
           /\ ~SomeFieldNonEmpty(Append(parse.row, Trim(parse.current))))
          => parse'.result = parse.result
     /\ (parse.pc = "scan" /\ parse'.pc = "done")
          => LET lastRow == Append(parse.row, Trim(parse.current))
             IN parse'.result = IF SomeFieldNonEmpty(lastRow)
                                  THEN Append(parse.result, lastRow)
                                  ELSE parse.result
     /\ (parse.csvText = SheetSample /\ parse'.pc = "done")
          => parse'.result = << << <<"a">>, <<"a">> >>, << <<"a">>, <<>> >> >>]_vars

C24_Witness ==
  /\ parse.csvText = SheetSample
  /\ parse.pc = "done"
  /\ Len(parse.result) = 2


(***************************************************************************)
(* Properties of fetchQuestions from the parsed rows on (SpecLoad).         *)
(***************************************************************************)
LeadingFieldsPresent(values) == Len(values) >= 2 /\ values[1] # "" /\ values[2] # ""

NoUsableRow(rows) ==
  \A k \in 1..Len(rows) :
    \/ k = 1 /\ IsHeaderRow(rows[k])
    \/ ~LeadingFieldsPresent(rows[k])

EmptyState ==
  /\ allQuestions = <<>>
  /\ availableCategories = {}
  /\ selectedCategories = {}
  /\ slides = <<>>
  /\ currentIndex = 0

\* C25: when the loaded rows yield no usable record (no row, only a header row,
\* only rows lacking two non-empty leading fields), the record set, the available
\* and the selected categories and the slide sequence are empty and the index is
\* 0, before and after the load; the load step ends with loading false.
C25_NoRecordsEmptyState ==
  /\ []((fetched.pc = "rows" /\ NoUsableRow(fetched.rows)) => EmptyState)
  /\ [][(PopulateState /\ NoUsableRow(fetched.rows)) => (~loading' /\ EmptyState')]_vars

C25_Witness ==
  /\ fetched.rows = << <<"Category", "Question">>, <<"A">> >>
  /\ fetched.i = 3
  /\ ~loading
  /\ EmptyState

NonEmptyFields(values) == {k \in 1..Len(values) : values[k] # ""}

\* The record the specification describes for a row.
ExpectedRecord(values) ==
  [category |-> values[1],
   question |-> values[2],
   depth |-> IF ToLowerCase(values[1]) = "aktion" THEN "deep" ELSE "light",
   type |-> IF Len(values) >= 3 /\ values[3] # "" THEN values[3] ELSE "Frage"]

\* The step of the row loop made a record of the row: a record of the pool, or
\* the intro record.
BecameRecord(values) ==
  \/ Len(fetched'.questions) = Len(fetched.questions) + 1
  \/ /\ Len(values) >= 2
     /\ ToLowerCase(values[1]) = "intro"
     /\ values[2] # ""
     /\ fetched'.introContent = <<ExpectedRecord(values)>>

RecordIsExpected(values) ==
  \/ fetched'.questions = Append(fetched.questions, ExpectedRecord(values))
  \/ /\ fetched'.questions = fetched.questions
     /\ fetched'.introContent = <<ExpectedRecord(values)>>

\* C26 as stated: a parsed row becomes a record exactly when it has at least two
\* non-empty fields, with category field 1, text field 2, type field 3 or "Frage"
\* when blank or absent, depth deep exactly when the category is the action label.
C26_RecordIffTwoNonEmptyFields ==
  [][RowStep =>
       LET values == fetched.rows[fetched.i]
       IN /\ BecameRecord(values) <=> Cardinality(NonEmptyFields(values)) >= 2
          /\ BecameRecord(values) => RecordIsExpected(values)]_vars

\* C26 amended: a parsed row other than the skipped header row becomes a record
\* exactly when its first two fields are both non-empty; the skipped header row
\* never does; the fields of the record are as stated.
C26_RecordIffLeadingFields ==
  [][RowStep =>
       LET values == fetched.rows[fetched.i]
       IN /\ BecameRecord(values) <=>
               /\ LeadingFieldsPresent(values)
               /\ ~(fetched.i = 1 /\ IsHeaderRow(values))
          /\ BecameRecord(values) => RecordIsExpected(values)]_vars

C26_Witness ==
  /\ fetched.rows = << <<"", "q1", "Frage">>, <<"AKTION", "q2", "">> >>
  /\ fetched.i = 3
  /\ fetched.questions =
       << [category |-> "AKTION", question |-> "q2", depth |-> "deep", type |-> "Frage"] >>

\* The specification's header test: either field resembles either label.
ResemblesHeader(values) ==
  \E k \in 1..Len(values) :
    /\ k <= 2
    /\ \/ Includes(ToLowerCase(values[k]), "categor")
       \/ Includes(ToLowerCase(values[k]), "question")

\* C27 as stated: row 0 is skipped exactly when its first or its second field
\* contains "categor" or "question"; no later row is skipped as a header, and
\* every later row with two non-empty leading fields becomes a record.
C27_HeaderEitherField ==
  [][RowStep =>
       LET values == fetched.rows[fetched.i]
       IN /\ (fetched.i = 1 /\ ResemblesHeader(values)) =>
               /\ fetched'.questions = fetched.questions
               /\ fetched'.introContent = fetched.introContent
          /\ (LeadingFieldsPresent(values) /\ ~(fetched.i = 1 /\ ResemblesHeader(values))) =>
               BecameRecord(values)]_vars

\* C27 amended: row 0 is skipped exactly when its first field contains "categor"
\* or its second field contains "question", case-insensitively; every other row
\* 0 and every later row with two non-empty leading fields becomes a record.
C27_HeaderByColumn ==
  [][RowStep =>
       LET values == fetched.rows[fetched.i]
           header == \/ Len(values) >= 1 /\ Includes(ToLowerCase(values[1]), "categor")
                     \/ Len(values) >= 2 /\ Includes(ToLowerCase(values[2]), "question")
       IN /\ (fetched.i = 1 /\ header) =>
               /\ fetched'.questions = fetched.questions
               /\ fetched'.introContent = fetched.introContent
          /\ (LeadingFieldsPresent(values) /\ ~(fetched.i = 1 /\ header)) =>
               BecameRecord(values)]_vars

C27_Witness ==
  /\ fetched.rows = << <<"Category", "Question">>, <<"Category", "Question">> >>
  /\ fetched.i = 3
  /\ fetched.questions =
       << [category |-> "Category", question |-> "Question",
           depth |-> "light", type |-> "Frage"] >>

IntroRows(rows) ==
  {k \in 1..Len(rows) : LeadingFieldsPresent(rows[k]) /\ ToLowerCase(rows[k][1]) = "intro"
                        /\ ~(k = 1 /\ IsHeaderRow(rows[k]))}

RowLoopDone == fetched.pc = "rows" /\ fetched.i > Len(fetched.rows)

\* C28: after the row loop the designated intro record is the first intro row of
\* the input, and every other intro row is a record of the pool.
C28_FirstIntroDesignated ==
  (RowLoopDone /\ IntroRows(fetched.rows) # {}) =>
    LET rows == fetched.rows
        first == CHOOSE k \in IntroRows(rows) : \A m \in IntroRows(rows) : k <= m
    IN /\ fetched.introContent = <<ExpectedRecord(rows[first])>>
       /\ \A k \in IntroRows(rows) \ {first} :
            \E j \in 1..Len(fetched.questions) :
              fetched.questions[j] = ExpectedRecord(rows[k])

IsIntroLabel(category) == ToLowerCase(category) = "intro"

\* C29: in every reachable state no record of the question pool, no available
\* or selected category and no slide has the category "intro" in any spelling.
C29_NoIntroInPool ==
  /\ \A k \in 1..Len(allQuestions) : ~IsIntroLabel(allQuestions[k].category)
  /\ \A c \in availableCategories \cup selectedCategories : ~IsIntroLabel(c)
  /\ \A k \in 1..Len(slides) : ~IsIntroLabel(slides[k].question.category)

C29_Witness ==
  /\ fetched.rows = << <<"Intro", "i1">>, <<"A", "q1">> >>
  /\ fetched.introContent # <<>>
  /\ ~loading
  /\ Len(allQuestions) = 1
  /\ Len(slides) = 1

SlideRecords == [k \in 1..Len(slides) |-> slides[k].question]

\* The records the specification expects in the slide sequence.
SelectedRecords ==
  SelectSeq(allQuestions,
            LAMBDA q : /\ q.category \in selectedCategories
                       /\ (~isMixedMode => q.type = "Frage"))

\* C30: the records of the slide sequence are, as a multiset, the records of the
\* base set whose category is selected and, when mixed mode is false, whose type
\* is "Frage"; every slide is a question slide with a record of the base set.
C30_SlidesAreTheFilteredRecords ==
  /\ IsPermutation(SlideRecords, SelectedRecords)
  /\ \A k \in 1..Len(slides) :
       slides[k].type = "question" /\ slides[k].question \in Range(allQuestions)

C30_Witness ==
  /\ ~isMixedMode
  /\ Len(allQuestions) = 2
  /\ selectedCategories = {"A", "B"}
  /\ \E k \in 1..2 : allQuestions[k].type = "Aktion"
  /\ Len(slides) = 1

(***************************************************************************)
(* Properties of the category selection (SpecSelector).                     *)
(***************************************************************************)
LoadSucceeds == loading /\ ~loading' /\ allQuestions' # <<>>

\* C31: right after a successful load the selected categories are all the
\* available ones, and in every state the selected categories are a subset of
\* the available ones.
C31_SelectedWithinAvailable ==
  /\ [](selectedCategories \subseteq availableCategories)
  /\ [][LoadSucceeds =>
          (selectedCategories' = availableCategories' /\ availableCategories' # {})]_vars

C31_Witness ==
  /\ ~loading
  /\ ~selector.open
  /\ availableCategories = {"A", "B"}
  /\ selectedCategories = {"A"}

\* C36: whenever the category dialog is closed, its temporary selection equals
\* the selected categories.
C36_ClosedDialogHasNoPendingToggle ==
  ~selector.open => selector.tempSelection = selectedCategories

(***************************************************************************)
(* Properties of fetchQuestions with its requests (SpecFetch).              *)
(***************************************************************************)
\* The local file is requested only as the second request, after the request
\* for the spreadsheet has failed.
FallbackAfterFailure ==
  \A k \in 1..Len(fetched.requests) :
    fetched.requests[k].url = "local" =>
      k = 2 /\ fetched.requests[1] = Request("sheets", FALSE)

BothFailed == fetched.requests = <<Request("sheets", FALSE), Request("local", FALSE)>>

\* C32: on every path of fetchQuestions loading eventually becomes false; the
\* local file is requested only after the request for the spreadsheet failed;
\* when both fail, the record set, the categories and the slides are empty and
\* the index is 0.
C32_LoadingEnds ==
  /\ <>(~loading)
  /\ []((fetched.pc = "local" \/ fetched.pc = "catch") ~> ~loading)
  /\ [](FallbackAfterFailure)
  /\ [](BothFailed => EmptyState)

C32_Witness == BothFailed /\ ~loading /\ EmptyState

(***************************************************************************)
(* Properties of the animated QuizApp (SpecAnimated).                       *)
(***************************************************************************)
\* C33: in the animated QuizApp currentIndex is within 0..slides.length-1, or 0
\* when there is no slide, in every state.
C33_AnimatedIndexInBounds ==
  mounted.component = "AnimatedQuizApp" =>
    IF animated.slidesLength = 0
      THEN animated.currentIndex = 0
      ELSE animated.currentIndex \in 0..(animated.slidesLength - 1)

(***************************************************************************)
(* Balance of the output of smartShuffle (SpecShuffle).                     *)
(***************************************************************************)
\* How many of the first k records of s are of category c.
CountInPrefix(s, k, c) == Cardinality({i \in 1..k : s[i].category = c})

InputCategories == {input[i].category : i \in 1..Len(input)}

\* C34: in every prefix of the output of smartShuffle and for every two
\* categories c1 and c2, the prefix holds at most one more record of c1 than of
\* c2, unless it holds every record of c2.
C34_PrefixesAreBalanced ==
  \A k \in 0..Len(result) :
    \A c1, c2 \in InputCategories :
      \/ CountInPrefix(result, k, c1) <= CountInPrefix(result, k, c2) + 1
      \/ CountInPrefix(result, k, c2) = CountInPrefix(input, Len(input), c2)

C34_Witness ==
  /\ pc = "done"
  /\ Len(result) = MaxLen
  /\ \E c1, c2 \in InputCategories :
       /\ CountInPrefix(input, Len(input), c1) = 3
       /\ CountInPrefix(input, Len(input), c2) = 1
       /\ result[1].category = c1
       /\ result[2].category = c2

(***************************************************************************)
(* Properties of the render of QuizApp (Spec).                              *)
(***************************************************************************)
\* longest slide sequence handed to the render
MaxSlides == 6

\* The slides s continued to n slides by repeating them.
Repeated(s, n) == [k \in 1..n |-> s[((k - 1) % Len(s)) + 1]]

\* C35: with a non-empty slide sequence safeIndex is a valid index, the card
\* stack shows between 1 and 4 slides, each with its record, starting at
\* safeIndex, and only the first card is given the drag transform, only while
\* isDragging.
C35_RenderedWindowIsValid ==
  Len(slides) > 0 =>
    LET cards == CardStack(Hooks)
    IN /\ SafeIndex(Hooks) \in 0..(Len(slides) - 1)
       /\ Len(cards) \in 1..4
       /\ \A n \in Len(slides)..MaxSlides :
            LET longer == CardStack([Hooks EXCEPT !.slides = Repeated(slides, n)])
            IN /\ Len(longer) \in 1..4
               /\ Len(longer) < 4 => currentIndex + Len(longer) >= n
               /\ \A k \in 1..Len(longer) :
                    /\ longer[k].actualIndex \in 0..(n - 1)
                    /\ longer[k].dragTransform => (k = 1 /\ isDragging)
       /\ \A k \in 1..Len(cards) :
            /\ cards[k].actualIndex \in 0..(Len(slides) - 1)
            /\ cards[k].slide = slides[cards[k].actualIndex + 1]
            /\ cards[k].slide.type = "question"
            /\ cards[k].slide.question \in Range(allQuestions)
            /\ cards[k].dragTransform => (k = 1 /\ isDragging)
       /\ ~loading => Render(Hooks).cards = cards

C35_Witness ==
  /\ Len(slides) = 3
  /\ currentIndex = 3
  /\ SafeIndex(Hooks) = 2
  /\ Len(CardStack(Hooks)) = 1

(***************************************************************************)
(* Properties of the direction of navigation in QuizApp (Spec).            *)
(***************************************************************************)
\* The states the render reaches after a drag handler left state h.
AfterDrag(h, refs) == RunEffects(Hooks, h, refs)

\* The release at p ends a drag of the registered handlers past the threshold.
CommittedDrag(p) ==
  /\ dragHandlers.isDragging
  /\ DragCommits(p.x - dragHandlers.dragStart.x, p.y - dragHandlers.dragStart.y)

\* nextQuestion, called by the registered drag handlers, passes its guard.
DragSeesNextSlide == dragHandlers.currentIndex < dragHandlers.slidesLength - 1

\* No step of a drag gesture lowers currentIndex, and a release past the
\* threshold has the effect of nextQuestion whatever the sign of the offset.
DragNeverGoesBack ==
  \A p \in Points :
    /\ \A done \in AfterDrag(HandleStartResult(p, Hooks),
                              [NoRefs EXCEPT !.dragStart = TRUE]) :
         done.currentIndex = currentIndex
    /\ \A done \in AfterDrag(HandleMoveResult(p, dragHandlers, Hooks), NoRefs) :
         done.currentIndex = currentIndex
    /\ \A done \in AfterDrag(HandleEndResult(p, dragHandlers, Hooks), NoRefs) :
         /\ done.currentIndex >= currentIndex
         /\ CommittedDrag(p) =>
              done.currentIndex = currentIndex + (IF DragSeesNextSlide THEN 1 ELSE 0)
         /\ ~CommittedDrag(p) => done.currentIndex = currentIndex

\* A step that lowers currentIndex is an ArrowLeft key press or a run of the
\* filter effect, which leaves the index at 0.
DecreaseIsArrowLeftOrReset ==
  currentIndex' < currentIndex =>
    \/ HandleKeyPress("ArrowLeft")
    \/ last'.filterRan /\ currentIndex' = 0

\* C37: no drag gesture of QuizApp lowers currentIndex: a release past the
\* threshold advances as nextQuestion does, by one, whatever the direction of
\* the offset, and currentIndex goes down only by an ArrowLeft key press or by
\* the reset to 0 of a filter change.
C37_DragsNeverDecreaseIndex ==
  []DragNeverGoesBack /\ [][DecreaseIsArrowLeftOrReset]_vars

\* A drag to the left (negative deltaX) past the threshold is about to be
\* released on a slide that is not the first and moves on to the next slide.
C37_Witness ==
  /\ CommittedDrag(Origin)
  /\ dragHandlers.dragStart.x = 250
  /\ currentIndex = 1
  /\ DragSeesNextSlide
  /\ \A done \in AfterDrag(HandleEndResult(Origin, dragHandlers, Hooks), NoRefs) :
       done.currentIndex = 2

(***************************************************************************)
(* Translation of the gestures of QuizCard and IntroSlide (SpecGesture).   *)
(***************************************************************************)
\* The constants every coordinate of a gesture is translated by.
Shifts == {10, 40}

Translated(p, d) == [x |-> p.x + d, y |-> p.y + d]

\* A stored coordinate translated back by d; null stays null.
Back(v, d) == IF v = Null THEN Null ELSE v - d

\* The tracker state st with every stored coordinate translated back by d.
TranslatedBack(st, d) ==
  IF mounted.component = "IntroSlide"
    THEN [st EXCEPT !.touchStartX = Back(@, d), !.touchStartY = Back(@, d),
                    !.touchEndX = Back(@, d), !.touchEndY = Back(@, d),
                    !.mouseStartX = Back(@, d), !.mouseStartY = Back(@, d),
                    !.mouseEndX = Back(@, d), !.mouseEndY = Back(@, d)]
    ELSE [st EXCEPT !.touchStart = Back(@, d), !.touchEnd = Back(@, d),
                    !.mouseStart = Back(@, d), !.mouseEnd = Back(@, d)]

\* The gesture start at a, move to b, end at b, sent to the mounted card.
Gesture(a, b) ==
  LET started == CardHandle(CardTracker, "start", a).st
      moved == CardHandle(started, "move", b).st
  IN CardHandle(moved, "end", b)

\* C38: in the trackers of QuizCard and IntroSlide the gesture from track.origin
\* to track.latest and the same gesture with every coordinate translated by the
\* same constant end with the same callbacks and, up to the translation, in the
\* same tracker state, also where a start or end coordinate is 0.
C38_TranslationKeepsDecision ==
  (mounted.component \in {"QuizCard", "IntroSlide"} /\ SingleAdapter
     /\ track.active /\ track.moved)
    => \A d \in Shifts :
         LET here == Gesture(track.origin, track.latest)
             there == Gesture(Translated(track.origin, d), Translated(track.latest, d))
         IN /\ there.calls = here.calls
            /\ TranslatedBack(there.st, d) = here.st

(***************************************************************************)
(* The content-type controls of the animated QuizApp (SpecMode).           *)
(***************************************************************************)
\* A click on the label of the mode that is already on changes neither the
\* slides, nor their order, nor currentIndex.
SameModeClickChangesNothing ==
  \A done \in RunEffects(Hooks, ModeLabelResult(isMixedMode, Hooks), NoRefs) :
    /\ done.slides = slides
    /\ done.currentIndex = currentIndex

\* A step in which the filter effect runs changes the selected categories, the
\* mixed-mode flag or the base record set.
FilterRunsOnChangeOnly ==
  last'.filterRan =>
    \/ selectedCategories' # selectedCategories
    \/ isMixedMode' # isMixedMode
    \/ allQuestions' # allQuestions

\* C39: a toggle interaction that leaves the mixed-mode flag at its value leaves
\* the slide sequence, its order and currentIndex unchanged, and the slides are
\* rebuilt and the index reset only in steps that change the selected
\* categories, the mixed-mode flag or the base record set.
C39_UnchangedModeKeepsSlides ==
  []SameModeClickChangesNothing /\ [][FilterRunsOnChangeOnly]_vars

=============================================================================
